---------------------------- MODULE Spec2Model ----------------------------
(***************************************************************************)
(* Staged generation of grounded semantic graphs                           *)
(* (questionanswering/construction/staged_generation.py).                  *)
(*                                                                         *)
(* The module models the search schedulers generate_with_gold,             *)
(* generate_with_model and generate_without_gold, the scorers              *)
(* ground_with_gold, ground_one_with_gold and ground_with_model, the       *)
(* grounders find_groundings, find_groundings_with_gold and                *)
(* approximate_groundings, and the functions apply_grounding and           *)
(* link_entities_in_graph. The knowledge base, the graph operators         *)
(* restrict / expand, the entity linker, the evaluation metric and the     *)
(* scoring model are external: every result they return is a               *)
(* nondeterministic choice from a bounded set.                             *)
(*                                                                         *)
(* F1 values are integers in thousandths (0.7 is 700); model scores are    *)
(* integers, the seed's score -1.0 is -1.                                  *)
(***************************************************************************)
EXTENDS Integers, Sequences, FiniteSets, TLC

(***************************************************************************)
(* Bounds of the model.                                                    *)
(***************************************************************************)
\* longest list stages.restrict returns
MaxRestrict == 2
\* longest list stages.expand returns
MaxExpand == 1
\* most candidates (groundings and their importance variants) one skeleton has
\* during a search
MaxCand == 2
\* most candidates one skeleton has when ground_with_gold is called on its own
MaxGroundCand == 4
\* longest input list of ground_with_gold when it is called on its own
MaxInput == 3

\* most entities of an input graph
MaxEntities == 2
\* longest list of identifiers the linker or a character-role query returns
MaxIds == 1

(***************************************************************************)
(* Program constants.                                                      *)
(***************************************************************************)
\* line 119: entity_linking_p.get("max.entity.options", 3)
MaxEntityOptions == 3
\* line 44: the search stops once the last positive has F1 >= 0.9
StopF == 900
\* line 49: a popped graph with F1 < 0.7 is refined further
RefineF == 700
\* line 75: a best chosen F1 < 0.05 opens a bonus round
BonusF == 50
\* line 175: a candidate with F1 < 0.01 is recorded as a negative
NegF == 10
\* lines 145-146: ground_with_gold keeps the 3 best chosen candidates
GoldCap == 3

\* F1 values the evaluation metric may return: below 0.01, below 0.05, from 0.7
\* and from 0.9, so that every comparison of the code goes both ways
FValues == {0, 30, 800, 1000}

\* evaluation results of the candidates of one skeleton, in grounding order
EvalLists(n) == UNION {[1..k -> FValues] : k \in 0..n}

VARIABLES
    mode,               \* which entry point this behaviour runs
    pc,                 \* position in the running function
    pool,               \* pool of possible parses
    positive_graphs,    \* generate_with_gold: accepted entries
    negative_graphs,    \* generate_with_gold: recorded rejected candidates
    g,                  \* the entry popped from the pool
    master_g_fscore,    \* acceptance threshold of the current iteration
    restricted_graphs,  \* number of skeletons stages.restrict returned
    suggested_graphs,   \* number of skeletons not yet tried
    chosen_graphs,      \* candidates chosen in the current iteration
    bonus_round,
    temp_chosen,        \* chosen list ground_with_gold returned last
    not_chosen_graphs,  \* rejected list ground_with_gold returned last
    gw,                 \* frame of the running ground_with_gold call
    result,             \* the list the search returned
    ungrounded_graph,   \* link_entities_in_graph: the graph it is called on
    entities,           \* link_entities_in_graph: the list it builds
    persons,            \* positions of the PERSON entities still to enrich
    film_ids,           \* identifiers still to query for the current PERSON
    queries,            \* linker and character-role queries of the running call
    calls,              \* calls of link_entities_in_graph that returned
    linked_before,      \* the graph as it was when the running call started
    error,              \* the exception that ended the run, "" if none
    groundings_found,   \* whether the knowledge base has returned any grounding
    generated_graphs,   \* generate_with_model: every accepted candidate
    grounded_graphs,    \* ground_with_model: number of graphs handed to the model
    model_scores,       \* ground_with_model: the scores the model returned
    beam_size,          \* generate_with_model: its argument
    master_score,       \* generate_with_model: score of the popped entry
    skeleton,           \* apply_grounding: its argument g
    grounding,          \* apply_grounding: its argument grounding
    grounded,           \* apply_grounding: the graph it returned
    caller_graphs,      \* ground_with_gold: the list its caller passed
    input_graphs,       \* ground_with_gold: its own list of graphs still to ground
    grounded_log,       \* ground_with_gold: the calls of ground_one_with_gold so far
    one_graphs,         \* ground_one_with_gold: grounded_graphs, variants included
    retrieved_answers,  \* ground_one_with_gold: number of answers of each graph
    variant_i,          \* ground_one_with_gold: position of the loop of lines 156-161
    one_min_fscore,     \* ground_one_with_gold: its argument min_fscore
    evaluation_results, \* ground_one_with_gold: the F1 of each graph
    one_chosen,         \* ground_one_with_gold: chosen_graphs
    one_not_chosen,     \* ground_one_with_gold: not_chosen_graphs
    find_g,             \* find_groundings: its argument g
    queried,            \* find_groundings: the graphs sent to query_graph_groundings
    query_results,      \* find_groundings: the groundings collected
    heap,               \* generate_without_gold: the graph objects and their fields
    unpruned_graphs,    \* ground_with_model: grounded_graphs before line 359
    direct_relations,   \* ground_with_model: the set of lines 359-361
    pruned_graphs,      \* ground_with_model: grounded_graphs after line 363
    approx_g,           \* approximate_groundings: the argument g
    edge_results,       \* approximate_groundings: what the query of line 192 returned
                        \* for the edge at each position
    separate_groundings,\* approximate_groundings: the list of lines 187-197
    approximated,       \* approximate_groundings: the list returned
    fgold_g,            \* find_groundings_with_gold: the argument g
    combination,        \* find_groundings_with_gold: position in edge_type_combinations
    joint_results,      \* find_groundings_with_gold: query_results of the last pass
    approximations,     \* find_groundings_with_gold: approximate_groundings(t) of the
                        \* last pass
    verified,           \* find_groundings_with_gold: the positions of the
                        \* approximations that verify_grounding accepted
    graph_groundings    \* find_groundings_with_gold: the list returned

linkVars == <<ungrounded_graph, entities, persons, film_ids, queries, calls,
              linked_before>>

goldVars == <<pool, positive_graphs, negative_graphs, g, master_g_fscore,
              restricted_graphs, suggested_graphs, chosen_graphs, bonus_round,
              temp_chosen, not_chosen_graphs, gw, result>>

modelVars == <<generated_graphs, grounded_graphs, model_scores, beam_size,
               master_score>>

applyVars == <<skeleton, grounding, grounded>>

groundVars == <<caller_graphs, input_graphs, grounded_log>>

oneVars == <<one_graphs, retrieved_answers, variant_i, one_min_fscore, evaluation_results,
             one_chosen, one_not_chosen>>

findVars == <<find_g, queried, query_results>>

\* what only ground_with_gold on its own, ground_one_with_gold, find_groundings
\* and generate_without_gold use
pruneVars == <<unpruned_graphs, direct_relations, pruned_graphs>>

approxVars == <<approx_g, edge_results, separate_groundings, approximated>>

fgoldVars == <<fgold_g, combination, joint_results, approximations, verified,
               graph_groundings>>

pureVars == <<pruneVars, approxVars, fgoldVars>>

restVars == <<groundVars, oneVars, findVars, heap, pureVars>>

vars == <<mode, pc, error, groundings_found, goldVars, linkVars, modelVars, applyVars,
          restVars>>

\* what no step of generate_with_gold's loop or of ground_with_gold changes
outsideGold == <<error, linkVars, modelVars, applyVars>>

goldLocals == <<g, master_g_fscore, restricted_graphs, suggested_graphs,
                chosen_graphs, bonus_round>>

(***************************************************************************)
(* Helpers on sequences.                                                   *)
(***************************************************************************)
Last(s) == s[Len(s)]

Front(s) == SubSeq(s, 1, Len(s) - 1)

\* s[:n]
Prefix(s, n) == SubSeq(s, 1, IF Len(s) < n THEN Len(s) ELSE n)

MaxOf(S) == CHOOSE x \in S : \A y \in S : y <= x

\* the order sorted(..., reverse=True) puts entries with these keys in: position k
\* holds the entry that has k - 1 entries before it, those with a greater key and
\* the earlier ones with an equal key (the sort is stable)
DescOrder(keys) ==
    LET rank(i) == Cardinality({j \in 1..Len(keys) : keys[j] > keys[i]})
                   + Cardinality({j \in 1..i : keys[j] = keys[i]})
    IN [k \in 1..Len(keys) |-> CHOOSE i \in 1..Len(keys) : rank(i) = k]

\* sorted(s, key=..., reverse=True), keys[i] being the key of s[i]
SortedDesc(s, keys) == [k \in 1..Len(s) |-> s[DescOrder(keys)[k]]]

\* x[1][2] of every entry of a list of generate_with_gold
F1s(s) == [i \in 1..Len(s) |-> s[i].f1]

\* x[1] of every entry of a list of generate_with_model
Scores(s) == [i \in 1..Len(s) |-> s[i].score]

NonIncreasing(keys) == \A i \in 1..Len(keys) - 1 : keys[i] >= keys[i + 1]

StrictlyDecreasing(keys) == \A i \in 1..Len(keys) - 1 : keys[i] > keys[i + 1]

(***************************************************************************)
(* link_entities_in_graph.                                                 *)
(*                                                                         *)
(* An entity is a Python tuple or list (span, tag) or (span, tag, ids):    *)
(* len is its number of elements, kind tells a tuple from a list (a tuple  *)
(* never equals a list, and an item of a tuple cannot be assigned).        *)
(* marker says whether a v-structure marker is among the graph's tokens.   *)
(***************************************************************************)
Spans == {<<"bella">>, <<"twilight", "saga">>}

Tags == {"PERSON", "NN", "CD"}

Ids == {"Q1", "Q2"}

\* what entity_linking.link_entity and post_process_entity_linkings may return
IdLists == UNION {[1..k -> Ids] : k \in 0..MaxIds}

Unlinked(span, tag) == [span |-> span, tag |-> tag, len |-> 2, ids |-> <<>>, kind |-> "tuple"]

Linked(span, tag, ids, kind) == [span |-> span, tag |-> tag, len |-> 3, ids |-> ids, kind |-> kind]

InputEntities ==
    {Unlinked(sp, t) : sp \in Spans, t \in Tags}
    \cup {Linked(sp, t, ids, k) : sp \in Spans, t \in {"PERSON", "NN"},
                                  ids \in IdLists, k \in {"tuple", "list"}}

InputGraphs ==
    [entities : UNION {[1..k -> InputEntities] : k \in 0..MaxEntities}, marker : BOOLEAN]

NoGraph == [entities |-> <<>>, marker |-> FALSE]

\* line 105: all(len(e) == 3 for e in ungrounded_graph.get('entities', []))
AllLinked(graph) == \A i \in 1..Len(graph.entities) : graph.entities[i].len = 3

\* line 108 with the test of the length left out
NeedsLinkingAnyLength(entity) == entity.tag # "CD"

\* line 108: len(entity) == 2 and entity[1] != "CD"
NeedsLinking(entity) == entity.len = 2 /\ entity.tag # "CD"

\* line 110: list(entity) + [linkings]
WithLinkings(entity, linkings) ==
    [entity EXCEPT !.len = 3, !.ids = linkings, !.kind = "list"]

\* line 114: e[1] == "PERSON" and len(e[0]) == 1 and len(e) == 3
IsCharacter(e) == e.tag = "PERSON" /\ Len(e.span) = 1 /\ e.len = 3

\* line 114: the entities to enrich, as positions in the list, in list order
Characters(es) ==
    LET idx == [i \in 1..Len(es) |-> i]
    IN SelectSeq(idx, LAMBDA i : IsCharacter(es[i]))

RECURSIVE Concat(_)
Concat(ss) == IF ss = <<>> THEN <<>> ELSE Head(ss) \o Concat(Tail(ss))

\* line 115: e[2] is read of every entity before len(e) == 3 is tested, so the
\* comprehension raises IndexError when an entity has 2 elements
FilmIdsRaise(es) == \E i \in 1..Len(es) : es[i].len = 2

\* line 115: [e_id for e in entities for e_id in e[2] if e != entity and len(e) == 3]
FilmIds(es, entity) ==
    Concat([i \in 1..Len(es) |->
               IF es[i] # entity /\ es[i].len = 3 THEN es[i].ids ELSE <<>>])

\* lines 118-119: entity[2] = character_linkings + entity[2], cut to the maximum
WithCharacters(entity, character_linkings) ==
    [entity EXCEPT !.ids = Prefix(character_linkings \o @, MaxEntityOptions)]

\* line 120: tuple(e)
AsTuple(e) == [e EXCEPT !.kind = "tuple"]

\* an entity appended as it is (line 112) is the object of the input graph: what
\* is assigned to it shows in the input graph too
SameObject(graph, i) == ~NeedsLinking(graph.entities[i])

LinkIdle ==
    /\ ungrounded_graph = NoGraph
    /\ entities = <<>>
    /\ persons = <<>>
    /\ film_ids = <<>>
    /\ queries = 0
    /\ calls = 0
    /\ linked_before = NoGraph

\* a call of link_entities_in_graph on an input graph
LinkStart ==
    /\ pc = "call"
    /\ ungrounded_graph \in InputGraphs
    /\ entities = <<>>
    /\ persons = <<>>
    /\ film_ids = <<>>
    /\ queries = 0
    /\ calls = 0
    /\ linked_before = ungrounded_graph

\* lines 104-106: every entity is linked already, return the graph as it is
LinkNothing ==
    /\ pc = "call"
    /\ AllLinked(ungrounded_graph)
    /\ calls' = calls + 1
    /\ pc' = "returned"
    /\ UNCHANGED <<mode, error, groundings_found, goldVars, modelVars, applyVars,
                   ungrounded_graph, entities, persons, film_ids, queries,
                   linked_before>>
    /\ UNCHANGED restVars

\* lines 104-107: some entity is not linked, start the loop over the entities
LinkBegin ==
    /\ pc = "call"
    /\ ~AllLinked(ungrounded_graph)
    /\ entities' = <<>>
    /\ pc' = "linking"
    /\ UNCHANGED <<mode, error, groundings_found, goldVars, modelVars, applyVars,
                   ungrounded_graph, persons, film_ids, queries, calls,
                   linked_before>>
    /\ UNCHANGED restVars

\* lines 107-112: the next entity is linked, or appended as it is
LinkEntity ==
    /\ pc = "linking"
    /\ Len(entities) < Len(ungrounded_graph.entities)
    /\ LET entity == ungrounded_graph.entities[Len(entities) + 1]
       IN IF NeedsLinking(entity)
          THEN \E linkings \in IdLists :
                  /\ entities' = Append(entities, WithLinkings(entity, linkings))
                  /\ queries' = queries + 1
          ELSE /\ entities' = Append(entities, entity)
               /\ queries' = queries
    /\ UNCHANGED <<mode, pc, error, groundings_found, goldVars, modelVars, applyVars,
                   ungrounded_graph, persons, film_ids, calls, linked_before>>
    /\ UNCHANGED restVars

\* lines 113-114: with a v-structure marker among the tokens, list the PERSON
\* entities to enrich
LinkMarker ==
    /\ pc = "linking"
    /\ Len(entities) = Len(ungrounded_graph.entities)
    /\ persons' = IF ungrounded_graph.marker THEN Characters(entities) ELSE <<>>
    /\ pc' = "persons"
    /\ UNCHANGED <<mode, error, groundings_found, goldVars, modelVars, applyVars,
                   ungrounded_graph, entities, film_ids, queries, calls,
                   linked_before>>
    /\ UNCHANGED restVars

\* line 115: the identifiers of the other entities, for the next PERSON entity
LinkFilms ==
    /\ pc = "persons"
    /\ persons # <<>>
    /\ IF FilmIdsRaise(entities)
       THEN /\ error' = "IndexError"
            /\ pc' = "error"
            /\ film_ids' = film_ids
       ELSE /\ film_ids' = FilmIds(entities, entities[Head(persons)])
            /\ pc' = "films"
            /\ error' = error
    /\ UNCHANGED <<mode, groundings_found, goldVars, modelVars, applyVars,
                   ungrounded_graph, entities, persons, queries, calls,
                   linked_before>>
    /\ UNCHANGED restVars

\* lines 116-119: one character-role query; its hits go in front of the PERSON
\* entity's identifiers, which raises TypeError when the entity is a tuple
LinkCharacter ==
    /\ pc = "films"
    /\ film_ids # <<>>
    /\ queries' = queries + 1
    /\ LET p == Head(persons)
       IN IF entities[p].kind = "tuple"
          THEN /\ error' = "TypeError"
               /\ pc' = "error"
               /\ UNCHANGED <<entities, film_ids, ungrounded_graph>>
          ELSE \E character_linkings \in IdLists :
                  /\ entities' = [entities EXCEPT
                                     ![p] = WithCharacters(@, character_linkings)]
                  /\ ungrounded_graph' =
                        IF SameObject(ungrounded_graph, p)
                        THEN [ungrounded_graph EXCEPT
                                 !.entities[p] = WithCharacters(@, character_linkings)]
                        ELSE ungrounded_graph
                  /\ film_ids' = Tail(film_ids)
                  /\ UNCHANGED <<pc, error>>
    /\ UNCHANGED <<mode, groundings_found, goldVars, modelVars, applyVars,
                   persons, calls, linked_before>>
    /\ UNCHANGED restVars

\* line 115: the identifiers are used up, go to the next PERSON entity
LinkNextPerson ==
    /\ pc = "films"
    /\ film_ids = <<>>
    /\ persons' = Tail(persons)
    /\ pc' = "persons"
    /\ UNCHANGED <<mode, error, groundings_found, goldVars, modelVars, applyVars,
                   ungrounded_graph, entities, film_ids, queries, calls,
                   linked_before>>
    /\ UNCHANGED restVars

\* lines 120-122: store the entities as tuples in the graph and return it
LinkFinish ==
    /\ pc = "persons"
    /\ persons = <<>>
    /\ ungrounded_graph' = [ungrounded_graph EXCEPT !.entities = [i \in 1..Len(entities) |-> AsTuple(entities[i])]]
    /\ calls' = calls + 1
    /\ pc' = "returned"
    /\ UNCHANGED <<mode, error, groundings_found, goldVars, modelVars, applyVars,
                   entities, persons, film_ids, queries, linked_before>>
    /\ UNCHANGED restVars

\* link_entities_in_graph is called again, on the graph it returned
LinkAgain ==
    /\ mode = "link" /\ pc = "returned"
    /\ calls < 2
    /\ linked_before' = ungrounded_graph
    /\ entities' = <<>>
    /\ queries' = 0
    /\ pc' = "call"
    /\ UNCHANGED <<mode, error, groundings_found, goldVars, modelVars, applyVars,
                   ungrounded_graph, persons, film_ids, calls>>
    /\ UNCHANGED restVars

\* the second call has returned
LinkDone ==
    /\ mode = "link" /\ pc = "returned"
    /\ ~(calls < 2)
    /\ pc' = "done"
    /\ UNCHANGED <<mode, error, groundings_found, goldVars, modelVars, applyVars,
                   linkVars>>
    /\ UNCHANGED restVars

(***************************************************************************)
(* ground_one_with_gold and ground_with_gold.                              *)
(***************************************************************************)
\* (grounded_graphs[i], evaluation_results[i], retrieved_answers[i])
Candidate(f) == [f1 |-> f]

\* (grounded_graphs[i], (0.0, 0.0, 0.0), len(retrieved_answers[i]))
Rejected(f) == [f1 |-> 0]

\* line 174 with >= for >
IsChosenOrEqual(f, min_fscore) == f >= min_fscore

\* line 174: evaluation_results[i][2] > min_fscore
IsChosen(f, min_fscore) == f > min_fscore

\* line 175 with <= for <
IsNotChosenOrEqual(f) == f <= NegF

\* line 175: evaluation_results[i][2] < 0.01
IsNotChosen(f) == f < NegF

\* evals: the F1 of every candidate of the skeleton (lines 152-172 ask the
\* knowledge base and the metric for them)
GroundOneWithGold(evals, min_fscore) ==
    LET above == SelectSeq(evals, LAMBDA f : IsChosen(f, min_fscore))
        below == SelectSeq(evals, IsNotChosen)
    IN [chosen |-> [i \in 1..Len(above) |-> Candidate(above[i])],
        not_chosen |-> [i \in 1..Len(below) |-> Rejected(below[i])]]

\* lines 144-146 with the cut to 3 left out
CapChosenUncut(all_chosen_graphs) ==
    SortedDesc(all_chosen_graphs, F1s(all_chosen_graphs))

\* lines 144-146 with the sort left out
CapChosenUnsorted(all_chosen_graphs) ==
    IF Len(all_chosen_graphs) > GoldCap THEN Prefix(all_chosen_graphs, GoldCap)
    ELSE all_chosen_graphs

\* lines 144-146: sort by F1, best first, and keep the first 3
CapChosen(all_chosen_graphs) ==
    LET sorted == SortedDesc(all_chosen_graphs, F1s(all_chosen_graphs))
    IN IF Len(sorted) > GoldCap THEN Prefix(sorted, GoldCap) ELSE sorted

\* line 140 popping from the list of the caller (line 138 left out)
PopOfCallersList(caller) == Tail(caller)

\* lines 138, 140: input_graphs.pop(0) takes from the copy made by
\* input_graphs[:]; the list of the caller keeps its elements
PopOfCopy(caller) == caller

NoCall == [input |-> 0, min |-> 0, chosen |-> <<>>, not_chosen |-> <<>>, site |-> "none"]

\* lines 137-138: a call of ground_with_gold on n input graphs
GwCall(n, min_fscore, site) ==
    [input |-> n, min |-> min_fscore, chosen |-> <<>>, not_chosen |-> <<>>, site |-> site]

(***************************************************************************)
(* generate_with_gold.                                                     *)
(***************************************************************************)
\* (ungrounded_graph, (0.0, 0.0, 0.0), [])
Seed == [f1 |-> 0]

\* line 44: positive_graphs[-1][1][2] if len(positive_graphs) > 0 else 0.0
LastPositiveF1(positives) == IF Len(positives) > 0 THEN Last(positives).f1 ELSE 0

\* line 44 reading the first positive instead of the last one
LoopCondFirst(p, positives) ==
    p # <<>> /\ (IF Len(positives) > 0 THEN Head(positives).f1 ELSE 0) < StopF

\* line 44: the condition of the while loop
LoopCond(p, positives) == p # <<>> /\ LastPositiveF1(positives) < StopF

\* lines 73-77 without line 77: a bonus round that keeps the threshold
BonusCheckKeepsMaster(chosen, master) ==
    IF chosen # <<>>
    THEN LET current_f1 == MaxOf({chosen[i].f1 : i \in 1..Len(chosen)})
         IN IF current_f1 < BonusF THEN <<TRUE, master>> ELSE <<FALSE, master>>
    ELSE <<FALSE, master>>

\* lines 73-77: the bonus round test; <<bonus_round, master_g_fscore>> afterwards
BonusCheck(chosen, master) ==
    IF chosen # <<>>
    THEN LET current_f1 == MaxOf({chosen[i].f1 : i \in 1..Len(chosen)})
         IN IF current_f1 < BonusF THEN <<TRUE, current_f1>> ELSE <<FALSE, master>>
    ELSE <<FALSE, master>>

\* pool.extend(chosen_graphs) with the sort of line 81 left out
ExtendPoolUnsorted(p, chosen) == p \o chosen

\* lines 80-81: pool.extend(chosen_graphs); pool = sorted(pool, ..., reverse=True)
ExtendPool(p, chosen) == SortedDesc(p \o chosen, F1s(p \o chosen))

\* generate_with_gold and ground_with_gold not yet called
GoldIdle ==
    /\ pool = <<>>
    /\ positive_graphs = <<>>
    /\ negative_graphs = <<>>
    /\ g = Seed
    /\ master_g_fscore = 0
    /\ restricted_graphs = 0
    /\ suggested_graphs = 0
    /\ chosen_graphs = <<>>
    /\ bonus_round = FALSE
    /\ temp_chosen = <<>>
    /\ not_chosen_graphs = <<>>
    /\ result = <<>>

\* line 40: generate_with_gold links the entities of its argument first
InitGold ==
    /\ mode = "gold"
    /\ LinkStart
    /\ GoldIdle
    /\ gw = NoCall

\* ground_with_gold is not called on its own
GroundIdle ==
    /\ caller_graphs = <<>>
    /\ input_graphs = <<>>
    /\ grounded_log = <<>>

\* ground_with_gold(input_graphs, gold_answers, min_fscore) called on its own, on
\* the skeletons 1, 2, ... in this order; line 138 has copied the list
InitGround ==
    /\ mode = "ground"
    /\ pc = "ground"
    /\ \E n \in 0..MaxInput, m \in FValues : gw = GwCall(n, m, "caller")
    /\ caller_graphs = [i \in 1..gw.input |-> i]
    /\ input_graphs = caller_graphs
    /\ grounded_log = <<>>
    /\ GoldIdle
    /\ LinkIdle

\* lines 41-43: the pool starts with the linked graph, which from here on is the
\* graph of that entry
GoldSeed ==
    /\ mode = "gold" /\ pc = "returned"
    /\ pool' = <<Seed>>
    /\ positive_graphs' = <<>>
    /\ negative_graphs' = <<>>
    /\ pc' = "loop"
    /\ ungrounded_graph' = NoGraph
    /\ entities' = <<>>
    /\ queries' = 0
    /\ calls' = 0
    /\ linked_before' = NoGraph
    /\ UNCHANGED <<mode, error, groundings_found, goldLocals, temp_chosen,
                   not_chosen_graphs, gw, result, persons, film_ids, modelVars,
                   applyVars>>
    /\ UNCHANGED restVars

\* lines 44-56: pop an entry with F1 < 0.7 and restrict it
GoldPopRefine ==
    /\ mode = "gold" /\ pc = "loop"
    /\ LoopCond(pool, positive_graphs)
    /\ Head(pool).f1 < RefineF
    /\ g' = Head(pool)
    /\ pool' = Tail(pool)
    /\ master_g_fscore' = Head(pool).f1
    /\ \E n \in 0..MaxRestrict :
          /\ restricted_graphs' = n
          /\ suggested_graphs' = n
    /\ chosen_graphs' = <<>>
    /\ bonus_round' = FALSE
    /\ pc' = "inner"
    /\ UNCHANGED outsideGold
    /\ UNCHANGED <<mode, groundings_found, positive_graphs, negative_graphs, temp_chosen,
                   not_chosen_graphs, gw, result>>
    /\ UNCHANGED restVars

\* lines 44-49, 85-87: pop an entry with F1 >= 0.7 and accept it
GoldPopAccept ==
    /\ mode = "gold" /\ pc = "loop"
    /\ LoopCond(pool, positive_graphs)
    /\ ~(Head(pool).f1 < RefineF)
    /\ g' = Head(pool)
    /\ pool' = Tail(pool)
    /\ master_g_fscore' = Head(pool).f1
    /\ positive_graphs' = Append(positive_graphs, Head(pool))
    /\ UNCHANGED outsideGold
    /\ UNCHANGED <<mode, groundings_found, pc, negative_graphs, restricted_graphs, suggested_graphs,
                   chosen_graphs, bonus_round, temp_chosen, not_chosen_graphs, gw,
                   result>>
    /\ UNCHANGED restVars

\* lines 57-62: take the next suggested skeleton and ground it
GoldNextSuggested ==
    /\ mode = "gold" /\ pc = "inner"
    /\ (chosen_graphs = <<>> \/ bonus_round) /\ suggested_graphs > 0
    /\ bonus_round' = FALSE
    /\ suggested_graphs' = suggested_graphs - 1
    /\ gw' = GwCall(1, master_g_fscore, "suggested")
    /\ pc' = "ground"
    /\ UNCHANGED outsideGold
    /\ UNCHANGED <<mode, groundings_found, pool, positive_graphs, negative_graphs, g, master_g_fscore,
                   restricted_graphs, chosen_graphs, temp_chosen, not_chosen_graphs,
                   result>>
    /\ UNCHANGED restVars

\* lines 139-143: ground_with_gold grounds and scores its next input graph
GroundWithGoldStep ==
    /\ mode \in {"gold", "ground"} /\ pc = "ground"
    /\ gw.input > 0 /\ Len(gw.chosen) = 0
    /\ \E evals \in EvalLists(IF mode = "gold" THEN MaxCand ELSE MaxGroundCand) :
          LET r == GroundOneWithGold(evals, gw.min)
          IN /\ gw' = [gw EXCEPT !.input = @ - 1,
                                 !.chosen = @ \o r.chosen,
                                 !.not_chosen = @ \o r.not_chosen]
             /\ groundings_found' = (groundings_found \/ evals # <<>>)
             /\ IF mode = "ground"
                THEN /\ input_graphs' = Tail(input_graphs)
                     /\ caller_graphs' = PopOfCopy(caller_graphs)
                     /\ grounded_log' = Append(grounded_log,
                                               [s_g |-> Head(input_graphs),
                                                chosen |-> r.chosen,
                                                not_chosen |-> r.not_chosen])
                ELSE UNCHANGED groundVars
    /\ UNCHANGED <<oneVars, findVars, heap, pureVars>>
    /\ UNCHANGED outsideGold
    /\ UNCHANGED <<mode, pc, pool, positive_graphs, negative_graphs, goldLocals,
                   temp_chosen, not_chosen_graphs, result>>

\* lines 144-148 and 62-64 / 70-72: ground_with_gold returns to generate_with_gold,
\* which adds the two lists to chosen_graphs and negative_graphs
GroundWithGoldReturn ==
    /\ mode = "gold" /\ pc = "ground"
    /\ ~(gw.input > 0 /\ Len(gw.chosen) = 0)
    /\ temp_chosen' = CapChosen(gw.chosen)
    /\ not_chosen_graphs' = gw.not_chosen
    /\ chosen_graphs' = chosen_graphs \o CapChosen(gw.chosen)
    /\ negative_graphs' = negative_graphs \o gw.not_chosen
    /\ pc' = IF gw.site = "suggested" THEN "grounded" ELSE "expanded"
    /\ gw' = NoCall
    /\ UNCHANGED outsideGold
    /\ UNCHANGED <<mode, groundings_found, pool, positive_graphs, g, master_g_fscore, restricted_graphs,
                   suggested_graphs, bonus_round, result>>
    /\ UNCHANGED restVars

\* lines 144-148: ground_with_gold, called on its own, returns
GroundWithGoldDone ==
    /\ mode = "ground" /\ pc = "ground"
    /\ ~(gw.input > 0 /\ Len(gw.chosen) = 0)
    /\ temp_chosen' = CapChosen(gw.chosen)
    /\ not_chosen_graphs' = gw.not_chosen
    /\ pc' = "done"
    /\ UNCHANGED outsideGold
    /\ UNCHANGED <<mode, groundings_found, pool, positive_graphs, negative_graphs, goldLocals, gw, result>>
    /\ UNCHANGED restVars

\* lines 66-70: nothing chosen yet, expand the skeleton and ground the expansions
GoldExpand ==
    /\ mode = "gold" /\ pc = "grounded"
    /\ chosen_graphs = <<>>
    /\ \E n \in 0..MaxExpand : gw' = GwCall(n, master_g_fscore, "expanded")
    /\ pc' = "ground"
    /\ UNCHANGED outsideGold
    /\ UNCHANGED <<mode, groundings_found, pool, positive_graphs, negative_graphs, goldLocals,
                   temp_chosen, not_chosen_graphs, result>>
    /\ UNCHANGED restVars

\* lines 73-77: the bonus round test that ends one pass of the skeleton loop; the
\* lists of the pass are dropped (the next pass assigns them anew)
GoldBonusCheck ==
    /\ mode = "gold"
    /\ \/ pc = "grounded" /\ chosen_graphs # <<>>
       \/ pc = "expanded"
    /\ bonus_round' = BonusCheck(chosen_graphs, master_g_fscore)[1]
    /\ master_g_fscore' = BonusCheck(chosen_graphs, master_g_fscore)[2]
    /\ temp_chosen' = <<>>
    /\ not_chosen_graphs' = <<>>
    /\ pc' = "inner"
    /\ UNCHANGED outsideGold
    /\ UNCHANGED <<mode, groundings_found, pool, positive_graphs, negative_graphs, g, restricted_graphs,
                   suggested_graphs, chosen_graphs, gw, result>>
    /\ UNCHANGED restVars

\* lines 78-81: the skeleton loop is over and something was chosen
GoldExtendPool ==
    /\ mode = "gold" /\ pc = "inner"
    /\ ~((chosen_graphs = <<>> \/ bonus_round) /\ suggested_graphs > 0)
    /\ Len(chosen_graphs) > 0
    /\ pool' = ExtendPool(pool, chosen_graphs)
    /\ pc' = "loop"
    /\ UNCHANGED outsideGold
    /\ UNCHANGED <<mode, groundings_found, positive_graphs, negative_graphs, goldLocals, temp_chosen,
                   not_chosen_graphs, gw, result>>
    /\ UNCHANGED restVars

\* lines 82-84 with the append left out
GoldFinalizeDropped ==
    /\ mode = "gold" /\ pc = "inner"
    /\ ~((chosen_graphs = <<>> \/ bonus_round) /\ suggested_graphs > 0)
    /\ ~(Len(chosen_graphs) > 0)
    /\ pc' = "loop"
    /\ UNCHANGED outsideGold
    /\ UNCHANGED <<mode, groundings_found, pool, positive_graphs, negative_graphs,
                   goldLocals, temp_chosen, not_chosen_graphs, gw, result>>
    /\ UNCHANGED restVars

\* lines 82-84: the skeleton loop is over and nothing was chosen
GoldFinalize ==
    /\ mode = "gold" /\ pc = "inner"
    /\ ~((chosen_graphs = <<>> \/ bonus_round) /\ suggested_graphs > 0)
    /\ ~(Len(chosen_graphs) > 0)
    /\ positive_graphs' = Append(positive_graphs, g)
    /\ pc' = "loop"
    /\ UNCHANGED outsideGold
    /\ UNCHANGED <<mode, groundings_found, pool, negative_graphs, goldLocals, temp_chosen,
                   not_chosen_graphs, gw, result>>
    /\ UNCHANGED restVars

\* lines 44, 88-90: the loop ends, return positive_graphs + negative_graphs
GoldReturn ==
    /\ mode = "gold" /\ pc = "loop"
    /\ ~LoopCond(pool, positive_graphs)
    /\ result' = positive_graphs \o negative_graphs
    /\ pc' = "done"
    /\ UNCHANGED outsideGold
    /\ UNCHANGED <<mode, groundings_found, pool, positive_graphs, negative_graphs, goldLocals,
                   temp_chosen, not_chosen_graphs, gw>>
    /\ UNCHANGED restVars

(***************************************************************************)
(* ground_with_model and generate_with_model.                              *)
(***************************************************************************)
\* longest list of grounded graphs that reaches the model in one call
MaxModelCand == 3
\* largest beam_size generate_with_model is called with
MaxBeam == 2

\* scores the model may give
ScoreValues == {0, 1, 2}

\* what qa_model.scores_for_instance may return for n graphs: the contract is one
\* score per graph, a list one shorter or longer breaks it
ScoreLists(n) == UNION {[1..k -> ScoreValues] : k \in (n - 1)..(n + 1)}

\* (ungrounded_graph, -1.0)
ModelSeedEntry == [score |-> -1]

\* line 378 with >= for >
IsAcceptedOrEqual(score, min_score) == score >= min_score

\* line 378: model_scores[i] > min_score
IsAccepted(score, min_score) == score > min_score

\* lines 377-378: the graphs whose score is above the minimum, with their score
Accepted(scores, min_score) ==
    LET above == SelectSeq(scores, LAMBDA x : IsAccepted(x, min_score))
    IN [i \in 1..Len(above) |-> [score |-> above[i]]]

\* lines 380-382: sort by score, best first, and keep the first beam_size
BeamChosen(all_chosen_graphs, beam) ==
    LET sorted == SortedDesc(all_chosen_graphs, Scores(all_chosen_graphs))
    IN IF Len(sorted) > beam THEN Prefix(sorted, beam) ELSE sorted

\* line 376 accepting a list that is longer than the list of graphs
ScoresAlignedOrLonger(scores, n) == Len(scores) >= n

\* line 376: assert len(model_scores) == len(grounded_graphs)
ScoresAligned(scores, n) == Len(scores) = n

\* line 412 without reverse=True
SortGeneratedAscending(generated) ==
    SortedDesc(generated, [i \in 1..Len(generated) |-> 0 - generated[i].score])

\* line 412: sorted(generated_graphs, key=lambda x: x[1], reverse=True)
SortGenerated(generated) == SortedDesc(generated, Scores(generated))

\* the chosen graphs put in front of the pool instead of behind it
ExtendModelPoolInFront(p, chosen) == chosen \o p

\* line 407: pool.extend(chosen_graphs)
ExtendModelPool(p, chosen) == p \o chosen

ModelIdle ==
    /\ generated_graphs = <<>>
    /\ grounded_graphs = 0
    /\ model_scores = <<>>
    /\ beam_size = 0
    /\ master_score = 0

\* line 388: generate_with_model links the entities of its argument first
InitModel ==
    /\ mode = "model"
    /\ LinkStart
    /\ GoldIdle
    /\ gw = NoCall
    /\ generated_graphs = <<>>
    /\ grounded_graphs = 0
    /\ model_scores = <<>>
    /\ beam_size \in 1..MaxBeam
    /\ master_score = 0

\* lines 389-391: the pool starts with the linked graph, which from here on is the
\* graph of that entry
ModelSeed ==
    /\ mode = "model" /\ pc = "returned"
    /\ pool' = <<ModelSeedEntry>>
    /\ generated_graphs' = <<>>
    /\ pc' = "loop"
    /\ ungrounded_graph' = NoGraph
    /\ entities' = <<>>
    /\ queries' = 0
    /\ calls' = 0
    /\ linked_before' = NoGraph
    /\ UNCHANGED <<mode, error, groundings_found, positive_graphs, negative_graphs,
                   goldLocals, temp_chosen, not_chosen_graphs, gw, result, persons,
                   film_ids, grounded_graphs, model_scores, beam_size, master_score,
                   applyVars>>
    /\ UNCHANGED restVars

\* lines 392-403 and 352-373: pop the first entry, restrict its graph, expand the
\* results and ground them all (restrict returns n graphs, expand e more, the
\* knowledge base found groundings, of which kept are left after the pruning);
\* with none left ground_with_model returns [] without calling the model
ModelPop ==
    /\ mode = "model" /\ pc = "loop"
    /\ pool # <<>>
    /\ g' = Head(pool)
    /\ pool' = Tail(pool)
    /\ master_score' = Head(pool).score
    /\ model_scores' = <<>>
    /\ \E n \in 0..MaxRestrict : \E e \in 0..(n * MaxExpand) :
       \E found \in 0..MaxModelCand : \E kept \in 0..found :
          /\ n + e = 0 => found = 0
          /\ groundings_found' = (groundings_found \/ found > 0)
          /\ grounded_graphs' = kept
          /\ IF kept = 0
             THEN /\ chosen_graphs' = <<>>
                  /\ pc' = "loop"
             ELSE /\ chosen_graphs' = chosen_graphs
                  /\ pc' = "scoring"
    /\ UNCHANGED <<mode, error, positive_graphs, negative_graphs, master_g_fscore,
                   restricted_graphs, suggested_graphs, bonus_round, temp_chosen,
                   not_chosen_graphs, gw, result, linkVars, generated_graphs,
                   beam_size, applyVars>>
    /\ UNCHANGED restVars

\* lines 374-376: the model scores the graphs; a list of another length fails the
\* assertion, which ends generate_with_model
ModelMisaligned ==
    /\ mode = "model" /\ pc = "scoring"
    /\ \E scores \in ScoreLists(grounded_graphs) :
          /\ ~ScoresAligned(scores, grounded_graphs)
          /\ model_scores' = scores
    /\ error' = "AssertionError"
    /\ pc' = "error"
    /\ UNCHANGED <<mode, groundings_found, goldVars, linkVars, generated_graphs,
                   grounded_graphs, beam_size, master_score, applyVars>>
    /\ UNCHANGED restVars

\* lines 374-384 and 403-409: the model scores the graphs, ground_with_model
\* returns the best of them, which are requeued and added to the generated graphs
ModelScore ==
    /\ mode = "model" /\ pc = "scoring"
    /\ \E scores \in ScoreLists(grounded_graphs) :
          /\ ScoresAligned(scores, grounded_graphs)
          /\ model_scores' = scores
          /\ LET chosen == BeamChosen(Accepted(scores, master_score), beam_size)
             IN /\ chosen_graphs' = chosen
                /\ pool' = IF Len(chosen) > 0 THEN ExtendModelPool(pool, chosen) ELSE pool
                /\ generated_graphs' =
                      IF Len(chosen) > 0 THEN generated_graphs \o chosen
                      ELSE generated_graphs
    /\ pc' = "loop"
    /\ UNCHANGED <<mode, error, groundings_found, positive_graphs, negative_graphs, g,
                   master_g_fscore, restricted_graphs, suggested_graphs, bonus_round,
                   temp_chosen, not_chosen_graphs, gw, result, linkVars,
                   grounded_graphs, beam_size, master_score, applyVars>>
    /\ UNCHANGED restVars

\* lines 392, 410-413: the pool is empty, return the generated graphs sorted
ModelReturn ==
    /\ mode = "model" /\ pc = "loop"
    /\ pool = <<>>
    /\ result' = SortGenerated(generated_graphs)
    /\ pc' = "done"
    /\ UNCHANGED <<mode, error, groundings_found, pool, positive_graphs,
                   negative_graphs, goldLocals, temp_chosen, not_chosen_graphs, gw,
                   linkVars, modelVars, applyVars>>
    /\ UNCHANGED restVars

(***************************************************************************)
(* apply_grounding.                                                        *)
(*                                                                         *)
(* A graph and an edge are Python dictionaries: functions whose domain is  *)
(* the set of keys present.  A grounding maps variable names to values.    *)
(***************************************************************************)
\* most edges of a skeleton
MaxEdges == 2
\* most variables of a grounding
MaxVars == 2

\* d[key] = value
SetKey(d, key, value) ==
    [k \in DOMAIN d \cup {key} |-> IF k = key THEN value ELSE d[k]]

EmptyDict == [k \in {} |-> ""]

\* edges of the skeletons: free, free with an auxiliary hop to fill, free with an
\* entity, and grounded already
InputEdges ==
    {EmptyDict,
     [hopUp |-> "None"],
     [rightkbID |-> "Q571"],
     [type |-> "v-structure", kbID |-> "P31v", hopUp |-> "P131v"]}

InputSkeletons ==
    LET edgeSets == UNION {[1..k -> InputEdges] : k \in 0..MaxEdges}
    IN {[edgeSet |-> es] : es \in edgeSets}
       \cup {[edgeSet |-> es, tokens |-> <<"who">>] : es \in edgeSets}

\* the names WikiData gives the variables of edge i
VarE2(i) == "e2" \o ToString(i)

VarHop(i) == "hop" \o ToString(i) \o "v"

VarRel(i, suffix) == "r" \o ToString(i) \o suffix

RelationVars == {VarRel(i, sfx) : i \in 0..(MaxEdges - 1), sfx \in {"d", "r", "v"}}

GroundingVars ==
    RelationVars \cup {VarHop(i) : i \in 0..(MaxEdges - 1)}
                 \cup {VarE2(i) : i \in 0..(MaxEdges - 1)}

VarValues(v) ==
    IF v \in RelationVars THEN {"P39v", "P106v"}
    ELSE IF v \in {VarHop(i) : i \in 0..(MaxEdges - 1)} THEN {"P17v"}
    ELSE {"Q18"}

InputGroundings ==
    UNION {{f \in [D -> {"P39v", "P106v", "P17v", "Q18"}] : \A v \in D : f[v] \in VarValues(v)} :
              D \in {D \in SUBSET GroundingVars : Cardinality(D) <= MaxVars}}

\* graph.copy_graph: a new graph with a copy of every edge, the entities (an empty
\* list if there are none) and the tokens
CopyGraph(graph) ==
    LET base == [edgeSet |-> IF "edgeSet" \in DOMAIN graph THEN graph.edgeSet ELSE <<>>,
                 entities |-> IF "entities" \in DOMAIN graph THEN graph.entities ELSE <<>>]
    IN IF "tokens" \in DOMAIN graph THEN SetKey(base, "tokens", graph.tokens) ELSE base

\* lines 439-440
ApplyEntity(edge, i, grnd) ==
    IF VarE2(i) \in DOMAIN grnd THEN SetKey(edge, "rightkbID", grnd[VarE2(i)]) ELSE edge

\* lines 441-445 with a test of the value for the test of the key: an edge whose
\* hopUp is None counts as one without hopUp
ApplyHopIfSet(edge, i, grnd) ==
    IF VarHop(i) \in DOMAIN grnd
    THEN IF "hopUp" \in DOMAIN edge /\ edge["hopUp"] # "None"
         THEN SetKey(edge, "hopUp", grnd[VarHop(i)])
         ELSE SetKey(edge, "hopDown", grnd[VarHop(i)])
    ELSE edge

\* lines 441-445
ApplyHop(edge, i, grnd) ==
    IF VarHop(i) \in DOMAIN grnd
    THEN IF "hopUp" \in DOMAIN edge
         THEN SetKey(edge, "hopUp", grnd[VarHop(i)])
         ELSE SetKey(edge, "hopDown", grnd[VarHop(i)])
    ELSE edge

\* lines 446-454 with if for elif: the last variable present is the one that stays
ChosenRelationLast(i, grnd) ==
    IF VarRel(i, "v") \in DOMAIN grnd THEN "v"
    ELSE IF VarRel(i, "r") \in DOMAIN grnd THEN "r"
    ELSE IF VarRel(i, "d") \in DOMAIN grnd THEN "d"
    ELSE ""

\* the relation variable of edge i that lines 446-454 read: the first one present
\* of r{i}d, r{i}r, r{i}v; "" if there is none
ChosenRelation(i, grnd) ==
    IF VarRel(i, "d") \in DOMAIN grnd THEN "d"
    ELSE IF VarRel(i, "r") \in DOMAIN grnd THEN "r"
    ELSE IF VarRel(i, "v") \in DOMAIN grnd THEN "v"
    ELSE ""

EdgeType(suffix) ==
    IF suffix = "d" THEN "direct" ELSE IF suffix = "r" THEN "reverse" ELSE "v-structure"

\* lines 446-454
ApplyRelation(edge, i, grnd) ==
    LET sfx == ChosenRelation(i, grnd)
    IN IF sfx = "" THEN edge
       ELSE SetKey(SetKey(edge, "kbID", grnd[VarRel(i, sfx)]), "type", EdgeType(sfx))

\* lines 437-456: the edges of the copy, each with the variables of its position
ApplyGrounding(graph, grnd) ==
    LET copy == CopyGraph(graph)
    IN [copy EXCEPT !.edgeSet =
           [k \in 1..Len(copy.edgeSet) |->
               ApplyRelation(ApplyHop(ApplyEntity(copy.edgeSet[k], k - 1, grnd),
                                      k - 1, grnd),
                             k - 1, grnd)]]

ApplyIdle ==
    /\ skeleton = EmptyDict
    /\ grounding = EmptyDict
    /\ grounded = EmptyDict

\* apply_grounding(g, grounding) called on a skeleton and a grounding
InitApply ==
    /\ mode = "apply"
    /\ pc = "apply"
    /\ skeleton \in InputSkeletons
    /\ grounding \in InputGroundings
    /\ grounded = EmptyDict
    /\ GoldIdle
    /\ gw = NoCall
    /\ LinkIdle

\* lines 437-456: the grounding is written to a copy, which is returned; the
\* argument keeps its edges
Apply ==
    /\ mode = "apply" /\ pc = "apply"
    /\ grounded' = ApplyGrounding(skeleton, grounding)
    /\ pc' = "done"
    /\ UNCHANGED <<mode, error, groundings_found, goldVars, linkVars, modelVars,
                   skeleton, grounding>>
    /\ UNCHANGED restVars

(***************************************************************************)
(* ground_one_with_gold.                                                   *)
(***************************************************************************)
\* most groundings find_groundings returns for the skeleton
MaxGroundings == 2
\* longest list of grounded graphs the loop of lines 156-161 is followed to
MaxCandidates == 4

\* line 157: len(retrieved_answers[i]) > 3
VariantLimit == 3

\* sizes of the denotations: at most 3 answers, or more
AnswerCounts == {2, 4}

\* F1 values of the candidates and of min_fscore; 5 lies between 0.0 and the 0.01 of line 175
OneFValues == {0, 5, 10, 30, 800}

\* line 152: apply_grounding(s_g, p) for a grounding p
Grounding == [filter |-> FALSE, from |-> 0]

\* lines 158-159: the copy of grounded_graphs[i] with t_g['filter'] = 'importance'
Variant(i) == [filter |-> TRUE, from |-> i]

\* line 157
HasManyAnswers(n) == n > VariantLimit

\* line 161: wdaccess.filter_denotation_by_importance keeps some of the answers,
\* possibly all of them
FilterResults(n) == {c \in AnswerCounts : c <= n}

\* line 173-174: the chosen candidates, in the order of grounded_graphs
ChosenOf(evals, min) ==
    LET idx == SelectSeq([i \in 1..Len(evals) |-> i],
                         LAMBDA i : IsChosen(evals[i], min))
    IN [k \in 1..Len(idx) |-> [graph |-> idx[k], f1 |-> evals[idx[k]]]]

\* line 175: the rejected candidates, recorded with the scores (0.0, 0.0, 0.0)
NotChosenOf(evals) ==
    LET idx == SelectSeq([i \in 1..Len(evals) |-> i],
                         LAMBDA i : IsNotChosen(evals[i]))
    IN [k \in 1..Len(idx) |-> [graph |-> idx[k], f1 |-> 0]]

OneIdle ==
    /\ one_graphs = <<>>
    /\ retrieved_answers = <<>>
    /\ variant_i = 0
    /\ one_min_fscore = 0
    /\ evaluation_results = <<>>
    /\ one_chosen = <<>>
    /\ one_not_chosen = <<>>

\* lines 152-155: ground_one_with_gold(s_g, gold_answers, min_fscore) has grounded
\* the skeleton and retrieved the answers of every grounding
InitOne ==
    /\ mode = "one"
    /\ pc = "variants"
    /\ \E n \in 0..MaxGroundings :
          /\ one_graphs = [i \in 1..n |-> Grounding]
          /\ retrieved_answers \in [1..n -> AnswerCounts]
    /\ variant_i = 1
    /\ one_min_fscore \in OneFValues
    /\ evaluation_results = <<>>
    /\ one_chosen = <<>>
    /\ one_not_chosen = <<>>
    /\ GoldIdle
    /\ gw = NoCall
    /\ LinkIdle

\* lines 156-161: one pass of the loop over enumerate(grounded_graphs); the loop
\* runs over the list it appends to, variants included
OneVariant ==
    /\ mode = "one" /\ pc = "variants"
    /\ variant_i <= Len(one_graphs)
    /\ IF HasManyAnswers(retrieved_answers[variant_i])
       THEN /\ Len(one_graphs) < MaxCandidates
            /\ one_graphs' = Append(one_graphs, Variant(variant_i))
            /\ \E c \in FilterResults(retrieved_answers[variant_i]) :
                  retrieved_answers' = Append(retrieved_answers, c)
       ELSE UNCHANGED <<one_graphs, retrieved_answers>>
    /\ variant_i' = variant_i + 1
    /\ UNCHANGED <<mode, pc, error, groundings_found, goldVars, linkVars, modelVars,
                   applyVars, pureVars, groundVars, findVars, heap, one_min_fscore,
                   evaluation_results, one_chosen, one_not_chosen>>

\* lines 163-176: the answers are evaluated against the gold answers and the
\* candidates are split into chosen and rejected
OneEvaluate ==
    /\ mode = "one" /\ pc = "variants"
    /\ variant_i > Len(one_graphs)
    /\ \E evals \in [1..Len(one_graphs) -> OneFValues] :
          /\ evaluation_results' = evals
          /\ one_chosen' = ChosenOf(evals, one_min_fscore)
          /\ one_not_chosen' = NotChosenOf(evals)
    /\ pc' = "done"
    /\ UNCHANGED <<mode, error, groundings_found, goldVars, linkVars, modelVars,
                   applyVars, pureVars, groundVars, findVars, heap, one_graphs,
                   retrieved_answers, variant_i, one_min_fscore>>

(***************************************************************************)
(* find_groundings.                                                        *)
(***************************************************************************)
\* most groundings one query returns
MaxResults == 1

\* words of v_structure_markers.txt
VStructureMarkers == {"starring"}

FindTokens == {<<"who">>, <<"who", "starring">>}

\* the skeletons find_groundings is called on, with and without tokens
FindInputs ==
    LET edgeSets == UNION {[1..k -> InputEdges] : k \in 0..MaxEdges}
    IN {[edgeSet |-> es] : es \in edgeSets}
       \cup {[edgeSet |-> es, tokens |-> t] : es \in edgeSets, t \in FindTokens}

\* not('type' in e and 'kbID' in e)
IsFree(e) == ~("type" \in DOMAIN e /\ "kbID" \in DOMAIN e)

\* 'hopUp' in e or 'hopDown' in e
HasHop(e) == "hopUp" \in DOMAIN e \/ "hopDown" \in DOMAIN e

\* the positions of the free edges, in the order of edgeSet
FreeEdges(graph) ==
    SelectSeq([i \in 1..Len(graph.edgeSet) |-> i], LAMBDA i : IsFree(graph.edgeSet[i]))

\* line 216: num_edges_to_ground
NumEdgesToGround(graph) == Len(FreeEdges(graph))

\* line 217: any('hopUp' in e or 'hopDown' in e for e in the free edges)
AnyFreeHop(graph) ==
    \E i \in 1..Len(graph.edgeSet) : IsFree(graph.edgeSet[i]) /\ HasHop(graph.edgeSet[i])

\* line 220: list(itertools.product(*[['direct', 'reverse']] * k)), in its order
RECURSIVE TypeCombinations(_)
TypeCombinations(k) ==
    IF k = 0 THEN << <<>> >>
    ELSE LET rest == TypeCombinations(k - 1)
         IN [c \in 1..(2 * Len(rest)) |->
                IF c <= Len(rest) THEN <<"direct">> \o rest[c]
                ELSE <<"reverse">> \o rest[c - Len(rest)]]

\* lines 222-224: a copy of the graph whose i-th free edge has the i-th type
WithTypes(graph, types) ==
    LET t == CopyGraph(graph)
        free == FreeEdges(t)
    IN [t EXCEPT !.edgeSet =
           [j \in 1..Len(t.edgeSet) |->
               IF \E i \in 1..Len(free) : free[i] = j
               THEN SetKey(t.edgeSet[j], "type",
                           types[CHOOSE i \in 1..Len(free) : free[i] = j])
               ELSE t.edgeSet[j]]]

\* line 226: any(w in set(g.get('tokens', [])) for w in v_structure_markers)
HasMarker(graph) ==
    /\ "tokens" \in DOMAIN graph
    /\ \E i \in 1..Len(graph.tokens) : graph.tokens[i] \in VStructureMarkers

\* line 226 asking for some free edge instead of exactly one
NeedsVStructureAnyFree(graph) == HasMarker(graph) /\ NumEdgesToGround(graph) >= 1

\* line 226: a marker among the tokens and num_edges_to_ground == 1
NeedsVStructure(graph) == HasMarker(graph) /\ NumEdgesToGround(graph) = 1

\* lines 227-229: a copy of the graph whose first free edge has type v-structure
WithVStructure(graph) ==
    LET t == CopyGraph(graph)
    IN [t EXCEPT !.edgeSet[Head(FreeEdges(t))] = SetKey(@, "type", "v-structure")]

\* lines 217-230: the graphs handed to wdaccess.query_graph_groundings, in order
FindQueries(graph) ==
    LET combinations == TypeCombinations(NumEdgesToGround(graph))
    IN (IF ~AnyFreeHop(graph) THEN <<graph>>
        ELSE [c \in 1..Len(combinations) |-> WithTypes(graph, combinations[c])])
       \o (IF NeedsVStructure(graph) THEN <<WithVStructure(graph)>> ELSE <<>>)

\* query_results += ...: counts[q] groundings of the q-th query, query after query
Collected(counts) ==
    Concat([q \in 1..Len(counts) |-> [j \in 1..counts[q] |-> [query |-> q, no |-> j]]])

FindIdle ==
    /\ find_g = EmptyDict
    /\ queried = <<>>
    /\ query_results = <<>>

\* find_groundings(g) called on a skeleton
InitFind ==
    /\ mode = "find"
    /\ pc = "find"
    /\ find_g \in FindInputs
    /\ queried = <<>>
    /\ query_results = <<>>
    /\ GoldIdle
    /\ gw = NoCall
    /\ LinkIdle

\* lines 215-231: the queries are sent one after the other and what they return
\* is concatenated; the argument keeps its edges
FindGroundings ==
    /\ mode = "find" /\ pc = "find"
    /\ queried' = FindQueries(find_g)
    /\ \E counts \in [1..Len(FindQueries(find_g)) -> 0..MaxResults] :
          query_results' = Collected(counts)
    /\ pc' = "done"
    /\ UNCHANGED <<mode, error, groundings_found, goldVars, linkVars, modelVars,
                   applyVars, pureVars, groundVars, oneVars, heap, find_g>>

(***************************************************************************)
(* ground_with_model: the removal of unnecessary qualifiers.               *)
(*                                                                         *)
(* A kbID is the pair of its base and its last character: "P31q" is        *)
(* <<"P31", "q">>, so kbID[:-1] is the first and kbID[-1] the second       *)
(* element.  A graph is its edgeSet.                                       *)
(***************************************************************************)
\* most grounded graphs of one call
MaxPruneCand == 3

\* last edges of the grounded graphs: a relation, the same relation as a
\* qualifier (q or r), the relation on an edge of type time, and an edge the
\* grounding gave no relation
PruneEdges ==
    {[type |-> "direct", kbID |-> <<"P31", "v">>],
     [type |-> "direct", kbID |-> <<"P31", "q">>],
     [type |-> "reverse", kbID |-> <<"P31", "r">>],
     [type |-> "time", kbID |-> <<"P31", "v">>],
     EmptyDict}

\* edges a graph may have before its last edge
EarlierEdges ==
    {[type |-> "direct", kbID |-> <<"P31", "v">>],
     [type |-> "direct", kbID |-> <<"P31", "q">>]}

PruneGraphs ==
    {<<e>> : e \in PruneEdges} \cup {<<f, e>> : f \in EarlierEdges, e \in PruneEdges}

\* graph.get_graph_last_edge(g) of a graph with at least one edge
LastEdge(graph) == graph[Len(graph)]

\* edge.get('kbID', " ")[-1]
KbSuffix(edge) == IF "kbID" \in DOMAIN edge THEN edge["kbID"][2] ELSE " "

\* edge.get('kbID', "")[:-1]
KbBase(edge) == IF "kbID" \in DOMAIN edge THEN edge["kbID"][1] ELSE ""

\* lines 361, 362: the last character of the kbID is in 'qr'
IsQualifier(edge) == KbSuffix(edge) \in {"q", "r"}

\* line 360: edge.get('type') in {'direct', 'reverse', 'v-structure'}
IsFirstOrder(edge) ==
    "type" \in DOMAIN edge /\ edge["type"] \in {"direct", "reverse", "v-structure"}

\* lines 359-361 without the test of the type
DirectRelationsAnyType(graphs) ==
    {KbBase(LastEdge(graphs[i])) :
        i \in {j \in 1..Len(graphs) : ~IsQualifier(LastEdge(graphs[j]))}}

\* lines 359-361: the relations of the last edges that are no qualifiers
DirectRelations(graphs) ==
    {KbBase(LastEdge(graphs[i])) :
        i \in {j \in 1..Len(graphs) :
                  IsFirstOrder(LastEdge(graphs[j])) /\ ~IsQualifier(LastEdge(graphs[j]))}}

\* lines 362-363: the graphs kept, in their order
WithoutQualifiers(graphs) ==
    SelectSeq(graphs,
              LAMBDA gr : ~IsQualifier(LastEdge(gr))
                             \/ KbBase(LastEdge(gr)) \notin DirectRelations(graphs))

PruneIdle ==
    /\ unpruned_graphs = <<>>
    /\ direct_relations = {}
    /\ pruned_graphs = <<>>

\* line 358: ground_with_model has grounded the input graphs
InitPrune ==
    /\ mode = "prune"
    /\ pc = "prune"
    /\ unpruned_graphs \in UNION {[1..k -> PruneGraphs] : k \in 0..MaxPruneCand}
    /\ direct_relations = {}
    /\ pruned_graphs = <<>>
    /\ GoldIdle
    /\ gw = NoCall
    /\ LinkIdle

\* lines 359-363: the qualifiers whose relation is among the direct relations
\* are removed
QualifierPrune ==
    /\ mode = "prune" /\ pc = "prune"
    /\ direct_relations' = DirectRelations(unpruned_graphs)
    /\ pruned_graphs' = WithoutQualifiers(unpruned_graphs)
    /\ pc' = "done"
    /\ UNCHANGED <<mode, error, groundings_found, goldVars, linkVars, modelVars,
                   applyVars, groundVars, oneVars, findVars, heap, unpruned_graphs,
                   approxVars, fgoldVars>>

(***************************************************************************)
(* approximate_groundings and find_groundings_with_gold.                   *)
(*                                                                         *)
(* As in the removal of qualifiers a kbID is the pair of its base and its  *)
(* last character.                                                         *)
(***************************************************************************)
\* most groundings the query of one edge returns
MaxEdgeResults == 2

\* wdaccess.property_whitelist
PropertyWhitelist == {"P31"}

\* a grounding with one variable
OneVar(name, value) == [v \in {name} |-> value]

\* groundings of a graph of one edge: a relation of the whitelist, a relation
\* outside of it, and the entity only
EdgeGroundings ==
    {OneVar(VarRel(0, "d"), <<"P31", "v">>),
     OneVar(VarRel(0, "r"), <<"P999", "v">>),
     OneVar(VarE2(0), "Q18")}

\* what wdaccess.query_graph_groundings may return for a graph of one edge
EdgeResultLists == UNION {[1..k -> EdgeGroundings] : k \in 0..MaxEdgeResults}

\* edges of the graphs handed to approximate_groundings: free, free with the
\* type given by find_groundings_with_gold, and grounded
ApproxEdges ==
    {EmptyDict, [type |-> "direct"], [type |-> "direct", kbID |-> <<"P39", "v">>]}

ApproxInputs ==
    {[edgeSet |-> es] : es \in UNION {[1..k -> ApproxEdges] : k \in 0..MaxEdges}}

\* what the queries of line 192 may return for the edges of the graph; no query
\* is sent for a grounded edge
EdgeResponses(graph) ==
    {r \in [1..Len(graph.edgeSet) -> EdgeResultLists] :
        \A i \in 1..Len(graph.edgeSet) : ~IsFree(graph.edgeSet[i]) => r[i] = <<>>}

\* line 193 without the whitelist
IsGrounded(edge) == "kbID" \in DOMAIN edge

\* line 193: "kbID" in e and e["kbID"][:-1] in wdaccess.property_whitelist
IsWhitelisted(edge) == "kbID" \in DOMAIN edge /\ edge["kbID"][1] \in PropertyWhitelist

\* lines 191-195: the groundings of one free edge that are in the whitelist
EdgeCandidates(edge, results) ==
    LET t == [edgeSet |-> <<edge>>]
        edge_groundings == [j \in 1..Len(results) |-> ApplyGrounding(t, results[j])]
        kept == SelectSeq(edge_groundings, LAMBDA e : IsWhitelisted(e.edgeSet[1]))
    IN [j \in 1..Len(kept) |-> kept[j].edgeSet[1]]

\* lines 187-197
SeparateGroundings(graph, responses) ==
    [i \in 1..Len(graph.edgeSet) |->
        IF IsFree(graph.edgeSet[i]) THEN EdgeCandidates(graph.edgeSet[i], responses[i])
        ELSE <<graph.edgeSet[i]>>]

\* line 199: list(itertools.product(*lists)), in its order
RECURSIVE Product(_)
Product(lists) ==
    IF lists = <<>> THEN << <<>> >>
    ELSE LET first == Head(lists)
             rest == Product(Tail(lists))
         IN [c \in 1..(Len(first) * Len(rest)) |->
                <<first[((c - 1) \div Len(rest)) + 1]>> \o rest[((c - 1) % Len(rest)) + 1]]

\* lines 198-204: a copy of the graph for every element of the product
ApproximateGroundings(graph, responses) ==
    LET edge_sets == Product(SeparateGroundings(graph, responses))
    IN [c \in 1..Len(edge_sets) |-> SetKey(CopyGraph(graph), "edgeSet", edge_sets[c])]

ApproxIdle ==
    /\ approx_g = EmptyDict
    /\ edge_results = <<>>
    /\ separate_groundings = <<>>
    /\ approximated = <<>>

\* approximate_groundings(g) called on a graph
InitApprox ==
    /\ mode = "approx"
    /\ pc = "approx"
    /\ approx_g \in ApproxInputs
    /\ edge_results = <<>>
    /\ separate_groundings = <<>>
    /\ approximated = <<>>
    /\ GoldIdle
    /\ gw = NoCall
    /\ LinkIdle

\* lines 187-204: every free edge is grounded by itself and the product of the
\* groundings is returned
Approximate ==
    /\ mode = "approx" /\ pc = "approx"
    /\ \E responses \in EdgeResponses(approx_g) :
          /\ edge_results' = responses
          /\ separate_groundings' = SeparateGroundings(approx_g, responses)
          /\ approximated' = ApproximateGroundings(approx_g, responses)
    /\ pc' = "done"
    /\ UNCHANGED <<mode, error, groundings_found, goldVars, linkVars, modelVars,
                   applyVars, groundVars, oneVars, findVars, heap, pruneVars,
                   fgoldVars, approx_g>>

\* edges of the graphs handed to find_groundings_with_gold: free with an entity
\* and grounded
FgoldEdges == {[rightkbID |-> "Q571"], [type |-> "direct", kbID |-> <<"P39", "v">>]}

FgoldInputs ==
    {[edgeSet |-> es] : es \in UNION {[1..k -> FgoldEdges] : k \in 0..MaxEdges}}

\* what the queries of line 192 may return within find_groundings_with_gold:
\* nothing, or one relation of the whitelist
FgoldResponses(graph) ==
    {r \in EdgeResponses(graph) :
        \A i \in 1..Len(graph.edgeSet) :
            r[i] \in {<<>>, <<OneVar(VarRel(0, "d"), <<"P31", "v">>)>>}}

\* query_results is None
NoneResult == [none |-> TRUE, results |-> <<>>]

\* what the joint query of line 251 may return: None, no grounding, or one
\* grounding, of the first free edge if there is one
JointResults(graph) ==
    {NoneResult}
       \cup {[none |-> FALSE, results |-> r] :
                r \in {<<>>, <<EmptyDict>>}
                         \cup (IF FreeEdges(graph) = <<>> THEN {}
                               ELSE {<<OneVar(VarRel(Head(FreeEdges(graph)) - 1, "d"),
                                              <<"P31", "v">>)>>})}

\* line 254: the approximations that verify_grounding accepts, in their order
VerifiedOnly(graphs, accepted) ==
    LET idx == SelectSeq([i \in 1..Len(graphs) |-> i], LAMBDA i : i \in accepted)
    IN [k \in 1..Len(idx) |-> graphs[idx[k]]]

FgoldIdle ==
    /\ fgold_g = EmptyDict
    /\ combination = 0
    /\ joint_results = [none |-> FALSE, results |-> <<>>]
    /\ approximations = <<>>
    /\ verified = {}
    /\ graph_groundings = <<>>

\* lines 244-246: find_groundings_with_gold(g) called on a graph
InitFgold ==
    /\ mode = "fgold"
    /\ pc = "combinations"
    /\ fgold_g \in FgoldInputs
    /\ combination = 1
    /\ joint_results = [none |-> FALSE, results |-> <<>>]
    /\ approximations = <<>>
    /\ verified = {}
    /\ graph_groundings = <<>>
    /\ GoldIdle
    /\ gw = NoCall
    /\ LinkIdle

\* lines 247-257: one pass of the loop over the type combinations: the joint
\* query is sent, and if it returns None the graph is approximated and the
\* approximations are verified one by one
FgoldCombination ==
    /\ mode = "fgold" /\ pc = "combinations"
    /\ combination <= Len(TypeCombinations(NumEdgesToGround(fgold_g)))
    /\ LET t == WithTypes(fgold_g, TypeCombinations(NumEdgesToGround(fgold_g))[combination])
       IN \E query_result \in JointResults(t) :
             /\ joint_results' = query_result
             /\ IF query_result.none
                THEN \E responses \in FgoldResponses(t) :
                        LET appoximated_groundings == ApproximateGroundings(t, responses)
                        IN /\ approximations' = appoximated_groundings
                           /\ \E accepted \in SUBSET (1..Len(appoximated_groundings)) :
                                 /\ verified' = accepted
                                 /\ graph_groundings' =
                                       graph_groundings
                                          \o VerifiedOnly(appoximated_groundings, accepted)
                ELSE /\ approximations' = <<>>
                     /\ verified' = {}
                     /\ graph_groundings' =
                           graph_groundings
                              \o [j \in 1..Len(query_result.results) |->
                                     ApplyGrounding(t, query_result.results[j])]
    /\ combination' = combination + 1
    /\ UNCHANGED <<mode, pc, error, groundings_found, goldVars, linkVars, modelVars,
                   applyVars, groundVars, oneVars, findVars, heap, pruneVars,
                   approxVars, fgold_g>>

\* lines 247, 258: all type combinations are done; graph_groundings is returned
FgoldReturn ==
    /\ mode = "fgold" /\ pc = "combinations"
    /\ combination > Len(TypeCombinations(NumEdgesToGround(fgold_g)))
    /\ pc' = "done"
    /\ UNCHANGED <<mode, error, groundings_found, goldVars, linkVars, modelVars,
                   applyVars, restVars>>

(***************************************************************************)
(* generate_without_gold.                                                  *)
(***************************************************************************)
\* most graph objects a run of generate_without_gold creates
MaxGraphs == 4

\* a graph object: whether an edge has canonical_right, whether
\* wdaccess.label_entity has a label for an edge lacking one, and whether the
\* graph has the key 'entities'; pool and generated_graphs hold positions in heap
GraphObjects == [labelled : {FALSE}, label_found : BOOLEAN, entities : BOOLEAN]

\* lines 466-471: the label is written into the edge of the graph itself
AddCanonicalLabels(obj) == [obj EXCEPT !.labelled = @ \/ obj.label_found]

\* lines 319-320: del g['entities'] when the graph has the key
DelEntities(obj) == [obj EXCEPT !.entities = FALSE]

\* the positions of the objects appended to the heap h
NewIds(h, objs) == [i \in 1..Len(objs) |-> Len(h) + i]

\* whether position id is an element of the list
Holds(list, id) == \E i \in 1..Len(list) : list[i] = id

NogoldIdle == heap = <<>>

\* lines 282-286: generate_without_gold(ungrounded_graph) starts its pool
InitNogold ==
    /\ mode = "nogold"
    /\ pc = "loop"
    /\ heap \in [1..1 -> GraphObjects]
    /\ pool = <<1>>
    /\ positive_graphs = <<>>
    /\ negative_graphs = <<>>
    /\ g = Seed
    /\ master_g_fscore = 0
    /\ restricted_graphs = 0
    /\ suggested_graphs = 0
    /\ chosen_graphs = <<>>
    /\ bonus_round = FALSE
    /\ temp_chosen = <<>>
    /\ not_chosen_graphs = <<>>
    /\ result = <<>>
    /\ gw = NoCall
    /\ LinkIdle

\* lines 287-302: pop a graph, restrict and expand it, and put the new graphs in
\* the pool
NogoldPop ==
    /\ mode = "nogold" /\ pc = "loop"
    /\ pool # <<>>
    /\ \E n \in 0..MaxRestrict :
          /\ Len(heap) + n <= MaxGraphs
          /\ \E suggested \in [1..n -> GraphObjects] :
                /\ heap' = heap \o suggested
                /\ chosen_graphs' = NewIds(heap, suggested)
                /\ pool' = Tail(pool) \o NewIds(heap, suggested)
    /\ pc' = "label"
    /\ UNCHANGED <<mode, error, groundings_found, positive_graphs, negative_graphs,
                   g, master_g_fscore, restricted_graphs, suggested_graphs,
                   bonus_round, temp_chosen, not_chosen_graphs, gw, result, linkVars,
                   modelVars, applyVars, pureVars, groundVars, oneVars, findVars>>

\* lines 304-312: label the chosen graphs, extend them without WikiData, and add
\* all of them to the generated graphs
NogoldLabel ==
    /\ mode = "nogold" /\ pc = "label"
    /\ \E m \in 0..MaxExpand :
          /\ Len(heap) + m <= MaxGraphs
          /\ \E extended \in [1..m -> GraphObjects] :
                LET labelled == [id \in 1..Len(heap) |->
                                    IF Holds(chosen_graphs, id)
                                    THEN AddCanonicalLabels(heap[id]) ELSE heap[id]]
                IN /\ heap' = labelled \o extended
                   /\ generated_graphs' =
                         generated_graphs \o chosen_graphs \o NewIds(heap, extended)
    /\ pc' = "loop"
    /\ UNCHANGED <<mode, error, groundings_found, goldVars, linkVars, grounded_graphs,
                   model_scores, beam_size, master_score, applyVars, pureVars,
                   groundVars, oneVars, findVars>>

\* lines 287, 313-316: the pool is empty; keep the graphs verify_grounding accepts
NogoldVerify ==
    /\ mode = "nogold" /\ pc = "loop"
    /\ pool = <<>>
    /\ \E keep \in [1..Len(generated_graphs) -> BOOLEAN] :
          generated_graphs' =
             SelectSeq(generated_graphs,
                       LAMBDA id : \E i \in 1..Len(generated_graphs) :
                                      generated_graphs[i] = id /\ keep[i])
    /\ pc' = "strip"
    /\ UNCHANGED <<mode, error, groundings_found, goldVars, linkVars, grounded_graphs,
                   model_scores, beam_size, master_score, applyVars, restVars>>

\* lines 317-320: the entities are deleted from the generated graphs
NogoldStrip ==
    /\ mode = "nogold" /\ pc = "strip"
    /\ heap' = [id \in 1..Len(heap) |->
                   IF Holds(generated_graphs, id) THEN DelEntities(heap[id])
                   ELSE heap[id]]
    /\ pc' = "grounding"
    /\ UNCHANGED <<mode, error, groundings_found, goldVars, linkVars, modelVars,
                   applyVars, pureVars, groundVars, oneVars, findVars>>

\* lines 321-326: ground_without_gold builds the grounded graphs, which are
\* returned
NogoldGround ==
    /\ mode = "nogold" /\ pc = "grounding"
    /\ \E n \in 0..Len(generated_graphs) :
          LET groundings == [i \in 1..n |->
                                [labelled |-> FALSE, label_found |-> FALSE,
                                 entities |-> FALSE]]
          IN /\ heap' = heap \o groundings
             /\ result' = NewIds(heap, groundings)
    /\ pc' = "done"
    /\ UNCHANGED <<mode, error, groundings_found, pool, positive_graphs,
                   negative_graphs, goldLocals, temp_chosen, not_chosen_graphs, gw,
                   linkVars, modelVars, applyVars, pureVars, groundVars, oneVars,
                   findVars>>

\* link_entities_in_graph called on its own, twice in a row
InitLink ==
    /\ mode = "link"
    /\ LinkStart
    /\ GoldIdle
    /\ gw = NoCall

Init ==
    /\ \/ InitGold
       \/ InitGround
       \/ InitModel
       \/ InitLink
       \/ InitApply
       \/ InitOne
       \/ InitFind
       \/ InitNogold
       \/ InitPrune
       \/ InitApprox
       \/ InitFgold
    /\ error = ""
    /\ groundings_found = FALSE
    /\ (mode # "model" => ModelIdle)
    /\ (mode # "apply" => ApplyIdle)
    /\ (mode # "ground" => GroundIdle)
    /\ (mode # "one" => OneIdle)
    /\ (mode # "find" => FindIdle)
    /\ (mode # "nogold" => NogoldIdle)
    /\ (mode # "prune" => PruneIdle)
    /\ (mode # "approx" => ApproxIdle)
    /\ (mode # "fgold" => FgoldIdle)

Next ==
    \/ LinkNothing
    \/ LinkBegin
    \/ LinkEntity
    \/ LinkMarker
    \/ LinkFilms
    \/ LinkCharacter
    \/ LinkNextPerson
    \/ LinkFinish
    \/ LinkAgain
    \/ LinkDone
    \/ GoldSeed
    \/ GoldPopRefine
    \/ GoldPopAccept
    \/ GoldNextSuggested
    \/ GroundWithGoldStep
    \/ GroundWithGoldReturn
    \/ GroundWithGoldDone
    \/ GoldExpand
    \/ GoldBonusCheck
    \/ GoldExtendPool
    \/ GoldFinalize
    \/ GoldReturn
    \/ ModelSeed
    \/ ModelPop
    \/ ModelMisaligned
    \/ ModelScore
    \/ ModelReturn
    \/ Apply
    \/ OneVariant
    \/ OneEvaluate
    \/ FindGroundings
    \/ NogoldPop
    \/ NogoldLabel
    \/ NogoldVerify
    \/ NogoldStrip
    \/ NogoldGround
    \/ QualifierPrune
    \/ Approximate
    \/ FgoldCombination
    \/ FgoldReturn

Spec == Init /\ [][Next]_vars


\* the program runs on its own: a step that can be taken is taken
FairSpec == Spec /\ WF_vars(Next)

(***************************************************************************)
(* Properties.                                                             *)
(***************************************************************************)
\* positions of generate_with_gold inside the refinement of a popped entry
Refining == mode = "gold" /\ pc \in {"inner", "ground", "grounded", "expanded"}

\* the best F1 among the accepted positives, 0.0 without any
BestPositiveF1(positives) ==
    IF positives = <<>> THEN 0 ELSE MaxOf({positives[i].f1 : i \in 1..Len(positives)})

\* C1: at every loop head of generate_with_gold the pool is non-increasing in F1,
\* so pop(0) takes an entry whose F1 is at least that of every entry left
C1_PoolSortedAtLoopHead ==
    (mode = "gold" /\ pc = "loop") =>
        /\ NonIncreasing(F1s(pool))
        /\ \A i \in 1..Len(pool) : Head(pool).f1 >= pool[i].f1

\* a loop head reached by pushing better refinements of an entry in front of the
\* entries that were left behind it
C1_Witness ==
    /\ mode = "gold" /\ pc = "loop"
    /\ Len(pool) >= 2
    /\ g.f1 = 30
    /\ Head(pool).f1 = 1000
    /\ Last(pool).f1 = 30

C4_LoopCondition ==
    /\ []((mode = "gold" /\ pc = "done") =>
             (pool = <<>> \/ BestPositiveF1(positive_graphs) >= StopF))
    /\ []((mode = "gold" /\ pc = "loop" /\ BestPositiveF1(positive_graphs) >= StopF) =>
             Last(positive_graphs).f1 = BestPositiveF1(positive_graphs))
    /\ [][(mode = "gold" /\ pc = "loop" /\ pc' # "done") =>
             (pool # <<>> /\ BestPositiveF1(positive_graphs) < StopF)]_vars

\* a search that stopped on a positive of F1 >= 0.9 with entries left in the pool
\* and an earlier positive below 0.9
C4_Witness ==
    /\ mode = "gold" /\ pc = "done"
    /\ pool # <<>>
    /\ Len(positive_graphs) >= 2
    /\ Head(positive_graphs).f1 < StopF
    /\ Last(positive_graphs).f1 >= StopF

C6_ChosenAtMostThree ==
    /\ Len(temp_chosen) <= GoldCap
    /\ mode = "model" => Len(chosen_graphs) <= beam_size
    /\ mode = "gold" => Len(chosen_graphs) <= GoldCap

\* C6 amended: the chosen list of ground_with_gold has at most 3 entries and that
\* of ground_with_model at most beam_size; the list one iteration of
\* generate_with_gold pushes into the pool has at most 3 entries for each
\* suggested skeleton the iteration tried (bonus rounds add to it)
C6_ChosenBounded ==
    /\ Len(temp_chosen) <= GoldCap
    /\ mode = "model" => Len(chosen_graphs) <= beam_size
    /\ mode = "gold" =>
          Len(chosen_graphs) <= GoldCap * (restricted_graphs - suggested_graphs)

\* ground_with_gold returned 3 candidates of a skeleton that had more above the
\* minimum
C6_Witness ==
    /\ mode = "ground" /\ pc = "done"
    /\ Len(gw.chosen) > GoldCap
    /\ Len(temp_chosen) = GoldCap

\* C7 as claimed: the chosen lists of ground_with_gold and ground_with_model are
\* strictly descending in score
C7_StrictlyDescending ==
    /\ StrictlyDecreasing(F1s(temp_chosen))
    /\ (mode = "model" /\ pc = "loop") => StrictlyDecreasing(Scores(chosen_graphs))

\* C7 amended: the chosen lists of ground_with_gold and ground_with_model are
\* sorted non-increasing in score: for consecutive entries a, b the score of a is at
\* least that of b, and candidates of equal score follow one another
C7_NonIncreasing ==
    /\ NonIncreasing(F1s(temp_chosen))
    /\ (mode = "model" /\ pc = "loop") => NonIncreasing(Scores(chosen_graphs))

\* ground_with_gold returned a list that its sort had to reorder and that holds two
\* candidates of equal F1
C7_Witness ==
    /\ mode = "ground" /\ pc = "done"
    /\ ~NonIncreasing(F1s(gw.chosen))
    /\ \E i \in 1..Len(temp_chosen) - 1 : temp_chosen[i].f1 = temp_chosen[i + 1].f1

\* the relation variables of edge i (counted from 0) in a grounding
RelationsOf(i, grnd) == {sfx \in {"d", "r", "v"} : VarRel(i, sfx) \in DOMAIN grnd}

\* whether a grounding mentions edge i
Mentions(i, grnd) ==
    RelationsOf(i, grnd) # {} \/ VarHop(i) \in DOMAIN grnd \/ VarE2(i) \in DOMAIN grnd

\* edge has this kbID and the type that goes with the suffix of the variable
HasRelation(edge, value, sfx) ==
    /\ {"kbID", "type"} \subseteq DOMAIN edge
    /\ edge.kbID = value
    /\ edge.type = (IF sfx = "d" THEN "direct"
                    ELSE IF sfx = "r" THEN "reverse" ELSE "v-structure")

\* edges the grounding does not mention are those of the argument
UnmentionedEdgesKept ==
    /\ Len(grounded.edgeSet) = Len(skeleton.edgeSet)
    /\ \A k \in 1..Len(skeleton.edgeSet) :
          ~Mentions(k - 1, grounding) => grounded.edgeSet[k] = skeleton.edgeSet[k]

\* C8 as claimed: after apply_grounding every relation variable of the grounding
\* shows in its edge, edges without a variable are those of the argument, and the
\* argument is as it was
C8_RoundTrip ==
    /\ []((mode = "apply" /\ pc = "done") =>
             /\ \A k \in 1..Len(skeleton.edgeSet) :
                   \A sfx \in RelationsOf(k - 1, grounding) :
                      HasRelation(grounded.edgeSet[k], grounding[VarRel(k - 1, sfx)], sfx)
             /\ UnmentionedEdgesKept)
    /\ [][mode = "apply" => skeleton' = skeleton]_vars

\* C8 amended: after apply_grounding each edge shows one relation variable of its
\* position, the first present of r{i}d, r{i}r, r{i}v (so the round trip is exact
\* when the grounding holds at most one of them per edge); edges without a
\* variable are those of the argument, and the argument is as it was
C8_FirstRelationWins ==
    /\ []((mode = "apply" /\ pc = "done") =>
             /\ \A k \in 1..Len(skeleton.edgeSet) :
                   LET present == RelationsOf(k - 1, grounding)
                       first == IF "d" \in present THEN "d"
                                ELSE IF "r" \in present THEN "r" ELSE "v"
                   IN present # {} =>
                         HasRelation(grounded.edgeSet[k],
                                     grounding[VarRel(k - 1, first)], first)
             /\ UnmentionedEdgesKept)
    /\ [][mode = "apply" => skeleton' = skeleton]_vars

\* apply_grounding has returned for a grounding with two relation variables of
\* different values for one edge, and a second edge the grounding does not mention
C8_Witness ==
    /\ mode = "apply" /\ pc = "done"
    /\ Len(skeleton.edgeSet) = 2
    /\ {VarRel(0, "r"), VarRel(0, "v")} \subseteq DOMAIN grounding
    /\ grounding[VarRel(0, "r")] # grounding[VarRel(0, "v")]
    /\ "hopUp" \in DOMAIN skeleton.edgeSet[2]

\* C9: link_entities_in_graph called on a graph it has linked returns the graph as
\* it was, raises nothing and asks neither the linker nor for character roles
C9_LinkIdempotent ==
    /\ (mode = "link" /\ calls = 2) => (ungrounded_graph = linked_before /\ queries = 0)
    /\ (mode = "link" /\ calls >= 1) => pc # "error"

\* the second call went through the loop over the entities (a CD entity keeps 2
\* elements) of a graph with a v-structure marker and a linked entity
C9_Witness ==
    /\ mode = "link" /\ calls = 2
    /\ ungrounded_graph.marker
    /\ Len(entities) = 2
    /\ \E i \in 1..2 : ungrounded_graph.entities[i].tag = "CD"
    /\ \E i \in 1..2 : /\ ungrounded_graph.entities[i].len = 3
                       /\ ungrounded_graph.entities[i].ids # <<>>

\* C10: when the model returns another number of scores than it was given graphs,
\* ground_with_model fails its assertion: nothing is requeued, added to the
\* generated graphs or returned; and when no graph is left after the pruning the
\* model is not called and nothing is chosen
C10_MisalignedScoresAbort ==
    /\ [][(mode = "model" /\ pc = "scoring" /\ Len(model_scores') # grounded_graphs) =>
             /\ pc' = "error" /\ error' = "AssertionError"
             /\ pool' = pool
             /\ generated_graphs' = generated_graphs
             /\ result' = result]_vars
    /\ []((mode = "model" /\ pc = "error") => result = <<>>)
    /\ []((mode = "model" /\ pc = "loop" /\ grounded_graphs = 0) =>
             (model_scores = <<>> /\ chosen_graphs = <<>>))
    /\ []((mode = "model" /\ pc = "scoring") => grounded_graphs > 0)

\* the model returned no score for a batch of graphs, in a search that had
\* generated graphs before
C10_Witness ==
    /\ mode = "model" /\ pc = "error"
    /\ error = "AssertionError"
    /\ model_scores = <<>>
    /\ grounded_graphs >= 1
    /\ generated_graphs # <<>>

\* C12: every entry popped by generate_with_gold meets one fate: it is appended to
\* the positives (its F1 is >= 0.7, or nothing was chosen while it was refined) and
\* nothing is pushed, or refinements are pushed into the pool and it is not
\* appended; every refinement pushed has an F1 above that of the popped entry
C12_OneFate ==
    /\ [][(mode = "gold" /\ pc = "loop" /\ pc' = "loop") =>
             /\ pool # <<>> /\ Head(pool).f1 >= RefineF
             /\ positive_graphs' = Append(positive_graphs, Head(pool))
             /\ pool' = Tail(pool)]_vars
    /\ [][(mode = "gold" /\ pc = "inner" /\ pc' = "loop") =>
             \/ /\ chosen_graphs = <<>>
                /\ g.f1 < RefineF
                /\ positive_graphs' = Append(positive_graphs, g)
                /\ pool' = pool
             \/ /\ chosen_graphs # <<>>
                /\ positive_graphs' = positive_graphs
                /\ Len(pool') = Len(pool) + Len(chosen_graphs)
                /\ \A i \in 1..Len(chosen_graphs) :
                      /\ chosen_graphs[i].f1 > g.f1
                      /\ \E j \in 1..Len(pool') : pool'[j] = chosen_graphs[i]]_vars
    /\ [][(mode = "gold" /\ Refining /\ pc' # "loop") =>
             (positive_graphs' = positive_graphs /\ pool' = pool)]_vars

\* an iteration with a bonus round has pushed a candidate of F1 0.03 and one of F1
\* 0.8, after an earlier entry was finalized for want of a refinement
C12_Witness ==
    /\ mode = "gold" /\ pc = "loop"
    /\ positive_graphs # <<>>
    /\ \E i \in 1..Len(chosen_graphs) : chosen_graphs[i].f1 = 30
    /\ \E i \in 1..Len(chosen_graphs) : chosen_graphs[i].f1 = 800
    /\ \E i \in 1..Len(pool) : pool[i].f1 = 800

\* how often x occurs in the list s
CountOf(s, x) == Cardinality({i \in 1..Len(s) : s[i] = x})

\* the two lists hold the same entries, each as often as the other
SameEntries(s, t) ==
    /\ Len(s) = Len(t)
    /\ \A i \in 1..Len(s) : CountOf(s, s[i]) = CountOf(t, s[i])

\* C13: every candidate generate_with_model accepts has a score above that of the
\* popped graph and is both requeued and appended to the generated graphs; no
\* other step adds to either list, so the generated graphs are what was added to
\* the pool after the seed; the list returned is the generated graphs sorted
\* non-increasing in score
C13_AcceptedRequeuedAndGenerated ==
    /\ [][(mode = "model" /\ pc = "scoring" /\ pc' = "loop") =>
             LET added == SubSeq(pool', Len(pool) + 1, Len(pool'))
             IN /\ pool' = pool \o added
                /\ generated_graphs' = generated_graphs \o added
                /\ \A i \in 1..Len(added) : added[i].score > g.score]_vars
    /\ [][(mode = "model" /\ pc = "loop") =>
             /\ generated_graphs' = generated_graphs
             /\ (pool' = pool \/ (pool # <<>> /\ pool' = Tail(pool)))]_vars
    /\ []((mode = "model" /\ pc = "loop") =>
             \A i \in 1..Len(pool) :
                \/ pool[i] = ModelSeedEntry
                \/ \E j \in 1..Len(generated_graphs) : generated_graphs[j] = pool[i])
    /\ []((mode = "model" /\ pc = "done") =>
             /\ SameEntries(result, generated_graphs)
             /\ NonIncreasing(Scores(result)))

\* generate_with_model returned a list it had to reorder: a later iteration
\* generated a candidate with a higher score than an earlier one
C13_Witness ==
    /\ mode = "model" /\ pc = "done"
    /\ Len(generated_graphs) >= 3
    /\ ~NonIncreasing(Scores(generated_graphs))
    /\ result # generated_graphs

\* C14: generate_with_model terminates: every requeued entry has a score above
\* that of the entry it was derived from, so with scores from a finite set the
\* pool runs empty; the function returns with an empty pool (or ends with the
\* error of entity linking or of the model's contract)
C14_ModelTerminates ==
    /\ [][(mode = "model" /\ pc = "scoring" /\ pc' = "loop") =>
             \A i \in (Len(pool) + 1)..Len(pool') : pool'[i].score > master_score]_vars
    /\ []((mode = "model" /\ pc = "scoring") => master_score = g.score)
    /\ []((mode = "model" /\ pc = "done") => pool = <<>>)
    /\ (mode = "model") ~> (pc \in {"done", "error"})

\* generate_with_model returned after chains of every length the scores allow:
\* candidates of each score were generated
C14_Witness ==
    /\ mode = "model" /\ pc = "done"
    /\ pool = <<>>
    /\ \A v \in ScoreValues : \E i \in 1..Len(result) : result[i].score = v

\* the skeleton loop of generate_with_gold may go on: nothing is chosen yet, or the
\* best F1 chosen so far is below 0.05
MayGoOn == chosen_graphs = <<>> \/ BestPositiveF1(chosen_graphs) < BonusF

\* C19: in one iteration of generate_with_gold the skeleton loop takes the next
\* restricted skeleton iff one is left and nothing is chosen yet or the best F1
\* chosen so far is below 0.05 (a bonus round); a skeleton is expanded only if
\* nothing is chosen after grounding it; a bonus round raises the acceptance
\* threshold to the best F1 chosen so far, and the threshold is what the next
\* candidates are measured against
C19_SkeletonLoop ==
    /\ [][(mode = "gold" /\ pc = "inner") =>
             (pc' = "ground" <=> (MayGoOn /\ suggested_graphs > 0))]_vars
    /\ [][(mode = "gold" /\ pc = "grounded") =>
             (pc' = "ground" <=> chosen_graphs = <<>>)]_vars
    /\ [][(mode = "gold" /\ pc \in {"grounded", "expanded"} /\ pc' = "inner") =>
             IF chosen_graphs # <<>> /\ BestPositiveF1(chosen_graphs) < BonusF
             THEN bonus_round' /\ master_g_fscore' = BestPositiveF1(chosen_graphs)
             ELSE ~bonus_round' /\ master_g_fscore' = master_g_fscore]_vars
    /\ [][(mode = "gold" /\ pc \in {"inner", "grounded"} /\ pc' = "ground") =>
             gw'.min = master_g_fscore]_vars
    /\ []((mode = "gold" /\ pc = "inner") =>
             (bonus_round <=> (chosen_graphs # <<>> /\ master_g_fscore < BonusF
                                  /\ master_g_fscore = BestPositiveF1(chosen_graphs))))

\* a bonus round: a further skeleton is grounded against the threshold 0.03, the
\* best F1 chosen so far
C19_Witness ==
    /\ mode = "gold" /\ pc = "ground"
    /\ chosen_graphs # <<>>
    /\ BestPositiveF1(chosen_graphs) = 30
    /\ gw.min = 30
    /\ g.f1 = 0
    /\ suggested_graphs < restricted_graphs - 1

\* C20: link_entities_in_graph raises no error whatever the entities are, and
\* when it returns the entities are those of the argument in the same order: an
\* entity of 2 elements whose tag is not CD has a list of identifiers, a CD entity
\* is as it was, and an enriched PERSON entity has at most max.entity.options
\* identifiers
C20_LinkCompletes ==
    /\ error \notin {"IndexError", "TypeError"}
    /\ (mode = "link" /\ calls = 1 /\ pc = "returned") =>
          /\ Len(ungrounded_graph.entities) = Len(linked_before.entities)
          /\ \A i \in 1..Len(linked_before.entities) :
                LET was == linked_before.entities[i]
                    is == ungrounded_graph.entities[i]
                IN /\ is.span = was.span /\ is.tag = was.tag
                   /\ (was.len = 2 /\ was.tag # "CD") => is.len = 3
                   /\ was.tag = "CD" => (is.len = was.len /\ is.ids = was.ids)
                   /\ Len(is.ids) <= MaxEntityOptions

InList(list, i) == \E k \in 1..Len(list) : list[k].graph = i

\* C15: ground_one_with_gold puts a candidate in the chosen list iff its F1 is
\* above min_fscore (with its F1, once) and in the rejected list iff its F1 is
\* below 0.01 (once); a candidate with an F1 from 0.01 to min_fscore is in neither
C15_ChosenAndRejected ==
    (mode = "one" /\ pc = "done") =>
        /\ \A i \in 1..Len(one_graphs) :
              /\ InList(one_chosen, i) <=> evaluation_results[i] > one_min_fscore
              /\ InList(one_not_chosen, i) <=> evaluation_results[i] < NegF
              /\ (evaluation_results[i] >= NegF
                     /\ evaluation_results[i] <= one_min_fscore) =>
                    (~InList(one_chosen, i) /\ ~InList(one_not_chosen, i))
        /\ \A k \in 1..Len(one_chosen) :
              /\ one_chosen[k].f1 = evaluation_results[one_chosen[k].graph]
              /\ \A l \in 1..Len(one_chosen) :
                    one_chosen[k].graph = one_chosen[l].graph => k = l
        /\ \A k, l \in 1..Len(one_not_chosen) :
              one_not_chosen[k].graph = one_not_chosen[l].graph => k = l

\* ground_one_with_gold returned with min_fscore 0.03 for candidates of F1 0.8
\* (chosen), 0.0 (rejected), 0.01 and 0.03 (neither)
C15_Witness ==
    /\ mode = "one" /\ pc = "done"
    /\ one_min_fscore = 30
    /\ \A f \in {0, 10, 30, 800} :
          \E i \in 1..Len(one_graphs) : evaluation_results[i] = f
    /\ Len(one_chosen) = 1
    /\ Len(one_not_chosen) = 1

\* C17: in ground_one_with_gold every grounding with more than 3 answers gets one
\* variant tagged filter: importance and no variant is derived from a variant, so
\* the candidates are at most twice the groundings
C17_OneVariantEach ==
    mode = "one" =>
        LET groundings == {i \in 1..Len(one_graphs) : ~one_graphs[i].filter}
            variants == {i \in 1..Len(one_graphs) : one_graphs[i].filter}
        IN /\ \A j \in variants : one_graphs[j].from \in groundings
           /\ \A j, k \in variants :
                 one_graphs[j].from = one_graphs[k].from => j = k
           /\ Len(one_graphs) <= 2 * Cardinality(groundings)

\* the positions of the edges of find_g that lack type or kbID
FreePositions ==
    {j \in 1..Len(find_g.edgeSet) :
        ~({"type", "kbID"} \subseteq DOMAIN find_g.edgeSet[j])}

\* a free edge of find_g has hopUp or hopDown
FreeHop ==
    \E j \in FreePositions : {"hopUp", "hopDown"} \cap DOMAIN find_g.edgeSet[j] # {}

\* the edge is the edge e with this type
TaggedAs(edge, e, types) ==
    /\ DOMAIN edge = DOMAIN e \cup {"type"}
    /\ edge.type \in types
    /\ \A key \in DOMAIN e \ {"type"} : edge[key] = e[key]

\* the q-th query is find_g with every free edge tagged with a type from types
TaggedQuery(q, types) ==
    /\ Len(queried[q].edgeSet) = Len(find_g.edgeSet)
    /\ \A j \in 1..Len(find_g.edgeSet) :
          IF j \in FreePositions
          THEN TaggedAs(queried[q].edgeSet[j], find_g.edgeSet[j], types)
          ELSE queried[q].edgeSet[j] = find_g.edgeSet[j]

\* C18: find_groundings sends one query on the skeleton as it is when no free edge
\* has hopUp or hopDown, and else 2^k queries, one for each assignment of direct
\* and reverse to the k free edges; it sends one more, with the free edge tagged
\* v-structure, iff the tokens hold a marker and k = 1; the result is what the
\* queries returned, in their order, and the argument is as it was
C18_FindGroundingsQueries ==
    /\ []((mode = "find" /\ pc = "done") =>
          LET k == Cardinality(FreePositions)
              typed == IF FreeHop THEN 2^k ELSE 1
              marker == /\ "tokens" \in DOMAIN find_g
                        /\ \E i \in 1..Len(find_g.tokens) :
                              find_g.tokens[i] \in VStructureMarkers
          IN /\ Len(queried) = typed + (IF marker /\ k = 1 THEN 1 ELSE 0)
             /\ ~FreeHop => queried[1] = find_g
             /\ FreeHop =>
                   /\ \A q \in 1..typed : TaggedQuery(q, {"direct", "reverse"})
                   /\ \A q, r \in 1..typed :
                         queried[q].edgeSet = queried[r].edgeSet => q = r
             /\ (marker /\ k = 1) => TaggedQuery(Len(queried), {"v-structure"})
             /\ \A i \in 1..Len(query_results) :
                   query_results[i].query \in 1..Len(queried)
             /\ \A i \in 1..(Len(query_results) - 1) :
                   query_results[i].query <= query_results[i + 1].query)
    /\ [][mode = "find" => find_g' = find_g]_vars

\* find_groundings sent the four typed queries of a skeleton with two free edges,
\* one of them with a hop, and a marker among its tokens; each returned a grounding
C18_Witness ==
    /\ mode = "find" /\ pc = "done"
    /\ Cardinality(FreePositions) = 2
    /\ FreeHop
    /\ "tokens" \in DOMAIN find_g /\ Len(find_g.tokens) = 2
    /\ Len(queried) = 4
    /\ Len(query_results) = 4

\* the graphs of generate_without_gold that are in the pool, in the generated
\* graphs or in the list returned
Published ==
    {id \in 1..Len(heap) :
        Holds(pool, id) \/ Holds(generated_graphs, id) \/ Holds(result, id)}

\* C11: no step changes a field of a graph that is an element of the pool, of
\* the generated graphs or of a result list
C11_PublishedNotMutated ==
    [][mode = "nogold" => \A id \in Published : heap'[id] = heap[id]]_vars

\* C24 as stated: no candidate of one call of ground_one_with_gold is both in
\* the chosen and in the rejected list, whatever min_fscore is
C24_ChosenRejectedDisjoint ==
    (mode = "one" /\ pc = "done") =>
        \A i \in 1..Len(one_graphs) :
            ~(InList(one_chosen, i) /\ InList(one_not_chosen, i))

\* C24: a candidate of one call of ground_one_with_gold is both in the chosen
\* and in the rejected list iff its F1 is above min_fscore and below 0.01, so
\* the two lists are disjoint for every min_fscore from 0.01
C24_DisjointFromNegF ==
    (mode = "one" /\ pc = "done") =>
        /\ \A i \in 1..Len(one_graphs) :
              (InList(one_chosen, i) /\ InList(one_not_chosen, i))
                 <=> (evaluation_results[i] > one_min_fscore
                         /\ evaluation_results[i] < NegF)
        /\ one_min_fscore >= NegF =>
              \A i \in 1..Len(one_graphs) :
                  ~(InList(one_chosen, i) /\ InList(one_not_chosen, i))

\* ground_one_with_gold returned with min_fscore 0.0: the candidate of F1 0.005
\* is in both lists, the one of F1 0.0 is rejected only and the one of F1 0.8 is
\* chosen only
C24_Witness ==
    /\ mode = "one" /\ pc = "done"
    /\ one_min_fscore = 0
    /\ \E i \in 1..Len(one_graphs) :
          /\ evaluation_results[i] = 5
          /\ InList(one_chosen, i) /\ InList(one_not_chosen, i)
    /\ \E i \in 1..Len(one_graphs) :
          /\ evaluation_results[i] = 0
          /\ ~InList(one_chosen, i) /\ InList(one_not_chosen, i)
    /\ \E i \in 1..Len(one_graphs) :
          /\ evaluation_results[i] = 800
          /\ InList(one_chosen, i) /\ ~InList(one_not_chosen, i)

\* the two edges agree on a key: both lack it or both have it with one value
SameKey(before, after, key) ==
    /\ key \in DOMAIN before <=> key \in DOMAIN after
    /\ key \in DOMAIN before => after[key] = before[key]

\* the graph with an empty entities list if it has none
WithEntities(graph) ==
    IF "entities" \in DOMAIN graph THEN graph ELSE SetKey(graph, "entities", <<>>)

\* C22: apply_grounding writes hop{i}v to hopUp of edge i if the edge of the
\* argument has a hopUp key (whatever its value) and to hopDown otherwise, and
\* leaves the other of the two as it was; e2{i} sets rightkbID of edge i; an edge
\* is changed by variables of its own index only; with an empty grounding the
\* result is the argument with an entities list
C22_HopAndEntity ==
    (mode = "apply" /\ pc = "done") =>
        /\ Len(grounded.edgeSet) = Len(skeleton.edgeSet)
        /\ \A k \in 1..Len(skeleton.edgeSet) :
              LET before == skeleton.edgeSet[k]
                  after == grounded.edgeSet[k]
                  i == k - 1
              IN /\ IF VarHop(i) \in DOMAIN grounding
                    THEN IF "hopUp" \in DOMAIN before
                         THEN /\ "hopUp" \in DOMAIN after
                              /\ after["hopUp"] = grounding[VarHop(i)]
                              /\ SameKey(before, after, "hopDown")
                         ELSE /\ "hopDown" \in DOMAIN after
                              /\ after["hopDown"] = grounding[VarHop(i)]
                              /\ "hopUp" \notin DOMAIN after
                    ELSE SameKey(before, after, "hopUp")
                            /\ SameKey(before, after, "hopDown")
                 /\ IF VarE2(i) \in DOMAIN grounding
                    THEN /\ "rightkbID" \in DOMAIN after
                         /\ after["rightkbID"] = grounding[VarE2(i)]
                    ELSE SameKey(before, after, "rightkbID")
                 /\ RelationsOf(i, grounding) = {} =>
                       SameKey(before, after, "kbID") /\ SameKey(before, after, "type")
                 /\ ~Mentions(i, grounding) => after = before
        /\ grounding = EmptyDict => grounded = WithEntities(skeleton)

\* apply_grounding has returned for a skeleton of two edges, the first with hopUp
\* None, and a grounding with hop0v and e21: the hop is in hopUp of the first edge
\* and the entity in the second edge
C22_Witness ==
    /\ mode = "apply" /\ pc = "done"
    /\ Len(skeleton.edgeSet) = 2
    /\ skeleton.edgeSet[1] = [hopUp |-> "None"]
    /\ skeleton.edgeSet[2] = EmptyDict
    /\ DOMAIN grounding = {VarHop(0), VarE2(1)}
    /\ grounded.edgeSet[1] = [hopUp |-> "P17v"]
    /\ grounded.edgeSet[2] = [rightkbID |-> "Q18"]

\* the elements of s at the positions of keep, in the order of s
Subsequence(s, keep) ==
    LET idx == SelectSeq([i \in 1..Len(s) |-> i], LAMBDA i : i \in keep)
    IN [k \in 1..Len(idx) |-> s[idx[k]]]

\* the edge is a relation of type direct, reverse or v-structure with this base
\* and is no qualifier
Expresses(edge, base) ==
    /\ "type" \in DOMAIN edge /\ "kbID" \in DOMAIN edge
    /\ edge["type"] \in {"direct", "reverse", "v-structure"}
    /\ edge["kbID"][2] \notin {"q", "r"}
    /\ edge["kbID"][1] = base

\* the last edge of the graph is a qualifier
QualifierTyped(graph) ==
    "kbID" \in DOMAIN graph[Len(graph)] /\ graph[Len(graph)]["kbID"][2] \in {"q", "r"}

\* some candidate has an edge, at any position, that expresses the base relation
\* of the last edge of the graph
ExpressedAnywhere(graph) ==
    \E i \in 1..Len(unpruned_graphs) : \E k \in 1..Len(unpruned_graphs[i]) :
        Expresses(unpruned_graphs[i][k], graph[Len(graph)]["kbID"][1])

\* some candidate has a last edge that expresses the base relation of the last
\* edge of the graph
ExpressedByLastEdge(graph) ==
    \E i \in 1..Len(unpruned_graphs) :
        Expresses(unpruned_graphs[i][Len(unpruned_graphs[i])], graph[Len(graph)]["kbID"][1])

\* C23 as stated: after the pruning of qualifiers in ground_with_model no
\* candidate left is a qualifier whose base relation is a direct, reverse or
\* v-structure edge anywhere among the candidates' edges; the candidates that
\* are no qualifiers are all left, in their order
C23_NoQualifierOfAnyEdge ==
    (mode = "prune" /\ pc = "done") =>
        /\ \A k \in 1..Len(pruned_graphs) :
              ~(QualifierTyped(pruned_graphs[k]) /\ ExpressedAnywhere(pruned_graphs[k]))
        /\ \E keep \in SUBSET (1..Len(unpruned_graphs)) :
              /\ pruned_graphs = Subsequence(unpruned_graphs, keep)
              /\ \A i \in 1..Len(unpruned_graphs) :
                    ~QualifierTyped(unpruned_graphs[i]) => i \in keep

\* C23: the pruning of qualifiers in ground_with_model removes exactly the
\* candidates whose last edge is a qualifier with the base relation of the last
\* edge, of type direct, reverse or v-structure and no qualifier, of some
\* candidate; all others are left, in their order
C23_LastEdgeQualifiers ==
    (mode = "prune" /\ pc = "done") =>
        LET keep == {i \in 1..Len(unpruned_graphs) :
                        ~(QualifierTyped(unpruned_graphs[i])
                             /\ ExpressedByLastEdge(unpruned_graphs[i]))}
        IN /\ pruned_graphs = Subsequence(unpruned_graphs, keep)
           /\ \A i \in 1..Len(unpruned_graphs) :
                 ~QualifierTyped(unpruned_graphs[i]) => i \in keep

\* ground_with_model pruned three candidates: the qualifier of P31 is removed
\* because the last candidate ends in the direct relation P31; the candidate in
\* between, whose last edge is of type time, stays in front of the last one
C23_Witness ==
    /\ mode = "prune" /\ pc = "done"
    /\ unpruned_graphs = << <<[type |-> "direct", kbID |-> <<"P31", "q">>]>>,
                            <<[type |-> "direct", kbID |-> <<"P31", "v">>],
                              [type |-> "time", kbID |-> <<"P31", "v">>]>>,
                            <<[type |-> "direct", kbID |-> <<"P31", "v">>]>> >>
    /\ pruned_graphs = Tail(unpruned_graphs)

\* the elements of a list
Range(list) == {list[i] : i \in 1..Len(list)}

\* the product of the lengths of the lists
RECURSIVE ProductOfLengths(_)
ProductOfLengths(lists) ==
    IF lists = <<>> THEN 1 ELSE Len(Head(lists)) * ProductOfLengths(Tail(lists))

\* the candidates of the edge at position i of the graph handed to
\* approximate_groundings: for a free edge the edge with each returned grounding
\* whose relation is in the whitelist, for a grounded edge the edge itself
CandidatesOf(i) ==
    LET edge == approx_g.edgeSet[i]
        grounded_edge(p) == ApplyGrounding([edgeSet |-> <<edge>>], p).edgeSet[1]
        whitelisted == SelectSeq(edge_results[i],
                                 LAMBDA p : /\ "kbID" \in DOMAIN grounded_edge(p)
                                            /\ grounded_edge(p)["kbID"][1] \in PropertyWhitelist)
    IN IF "type" \in DOMAIN edge /\ "kbID" \in DOMAIN edge THEN <<edge>>
       ELSE [j \in 1..Len(whitelisted) |-> grounded_edge(whitelisted[j])]

\* approximate_groundings returned one graph for every element of the product
\* of the candidates of the edges
OneGraphPerCombination ==
    LET n == Len(approx_g.edgeSet)
        candidates == [i \in 1..n |-> CandidatesOf(i)]
        edges == UNION {Range(candidates[i]) : i \in 1..n}
    IN /\ separate_groundings = candidates
       /\ Len(approximated) = ProductOfLengths(candidates)
       /\ {approximated[c].edgeSet : c \in 1..Len(approximated)}
             = {f \in [1..n -> edges] : \A i \in 1..n : f[i] \in Range(candidates[i])}
       /\ (\E i \in 1..n : candidates[i] = <<>>) => approximated = <<>>

\* C21: approximate_groundings returns one graph for every element of the
\* product of the candidates of the edges (the groundings in the whitelist of a
\* free edge, the edge itself if it is grounded), so none if a free edge has no
\* candidate; when the joint query of find_groundings_with_gold returns None,
\* what the pass adds to the result is the approximations that verify_grounding
\* accepts, in their order, and no error is raised
C21_ApproximationFallback ==
    /\ []((mode = "approx" /\ pc = "done") => OneGraphPerCombination)
    /\ [](mode = "fgold" => error = "")
    /\ [][(mode = "fgold" /\ combination' = combination + 1 /\ joint_results'.none) =>
             /\ graph_groundings' =
                   graph_groundings \o Subsequence(approximations', verified')
             /\ \A c \in 1..Len(approximations') :
                   Len(approximations'[c].edgeSet) = Len(fgold_g.edgeSet)
             /\ pc' = "combinations"]_vars

\* find_groundings_with_gold on a graph of two free edges: the joint query
\* returned None, both edges have a grounding in the whitelist, and the
\* approximation was verified and added to the result
C21_Witness ==
    /\ mode = "fgold"
    /\ NumEdgesToGround(fgold_g) = 2
    /\ joint_results.none
    /\ Len(approximations) = 1
    /\ verified = {1}
    /\ graph_groundings = approximations

=============================================================================
